---- MODULE Spec2Model ----
(***************************************************************************)
(* Phagefall (phages vs bacteria): the GameScene session, its injection    *)
(* state machine, lysis, helper AI, reproduction timer and dish geometry.  *)
(*                                                                         *)
(* Units.  Lengths are in thousandths of a pixel and times in              *)
(* milliseconds, so that 0.93 * dishRadius, 0.92 * dishRadius, dtMs / 1000 *)
(* and the cooldown of 1.5 s are all integers.  Random draws               *)
(* (Math.random()) are in thousandths: a draw d stands for d / 1000.       *)
(*                                                                         *)
(* Positions.  Every sampled position lies on the horizontal diameter of   *)
(* the dish (y = H / 2), so a position is its x coordinate.  On that line  *)
(* a squared distance compares like the absolute difference, which is what *)
(* Dist returns: d2 < 34 * 34 reads Dist < 34 px, and so on.               *)
(*                                                                         *)
(* Not in the state: velocity, acceleration, rotation, scale, alpha,       *)
(* tweens, particles, text, music.  Entities are displaced by the arcade   *)
(* physics engine between two calls of update; PhysicsStep is that         *)
(* displacement.                                                           *)
(***************************************************************************)
EXTENDS Integers, Sequences, FiniteSets, TLC

VARIABLES
    scene,      \* the GameScene object: its fields, groups and player
    now,        \* the scene clock (this.time.now, the t handed to update), ms
    lastOp,     \* observation: the handler that ran last
    firstReached \* observation: the threshold the session crossed first

vars == <<scene, now, lastOp, firstReached>>

-----------------------------------------------------------------------------
(* Arithmetic helpers                                                      *)

Abs(a) == IF a < 0 THEN -a ELSE a
Min(a, b) == IF a < b THEN a ELSE b
Max(a, b) == IF a > b THEN a ELSE b
Clamp(v, lo, hi) == Max(lo, Min(hi, v))
Sign(a) == IF a < 0 THEN -1 ELSE 1

Milli == 1000
NULL == 0

Dist(a, b) == Abs(a - b)

-----------------------------------------------------------------------------
(* config.js                                                               *)

W == 960
H == 540

baseInjectDuration == 750
attachRange == 92 * Milli
killerHelperChance == 900
killerLysisChancePerSec == 350

(* GAME_SETTINGS.neededToWin, loseThreshold and maxHelpers are tunables:   *)
(* the model runs the session under each of a few small settings.          *)
SmallNeededToWin == 2
SmallLoseThreshold == 11
SmallMaxHelpers == 3

GAME_SETTINGS ==
    { [neededToWin |-> 1, loseThreshold |-> SmallLoseThreshold, maxHelpers |-> 1],
      [neededToWin |-> SmallNeededToWin, loseThreshold |-> SmallLoseThreshold,
       maxHelpers |-> SmallMaxHelpers] }

-----------------------------------------------------------------------------
(* Dish geometry                                                           *)

centerX == (W * Milli) \div 2
dishRadius == (Min(W, H) * Milli * 44) \div 100
maxR == (dishRadius * 93) \div 100
spawnRadius == (dishRadius * 92) \div 100

(* randomPointInDish(center, radius): cosT is cos(t) for t on the          *)
(* horizontal diameter (1 or -1), rPermille is the triangular draw r in    *)
(* thousandths (0 <= r <= 1000).                                           *)
randomPointInDish(radius, cosT, rPermille) ==
    centerX + cosT * ((rPermille * radius) \div Milli)

clampToDishPoint(radius, p) ==
    LET to == p - centerX
    IN  IF Abs(to) <= radius THEN p ELSE centerX + Sign(to) * radius

(* constrainToDish(sprite), position part.                                 *)
constrainToDish(x) ==
    LET to == x - centerX
    IN  IF Abs(to) > maxR THEN centerX + Sign(to) * maxR ELSE x

-----------------------------------------------------------------------------
(* Groups: this.bacteria and this.helpers are sequences in creation order  *)
(* (the order children.iterate visits them).  A disabled bacterium stays   *)
(* in its group with active = FALSE.  attachedTarget is an index into      *)
(* scene.bacteria, NULL for null.                                          *)

Bacterium(x) == [x |-> x, active |-> TRUE, infected |-> FALSE]
(* sinceStrike observes the frame time (ms, counted up to the cooldown of   *)
(* 1500) accumulated since the helper's last strike; -1: it never struck.  *)
(* accMag (px/s^2) and accDir (thousandths of a radian, 0 to the right)    *)
(* are the body's acceleration, zero at creation; wanderAngle starts at    *)
(* the sampled draw InitialWander of FloatBetween(0, 2 pi).                *)
InitialWander == 1000

Helper(x, isKiller) ==
    [x |-> x, active |-> TRUE, killer |-> isKiller, cooldown |-> 0, sinceStrike |-> -1,
     accMag |-> 0, accDir |-> 0, wanderAngle |-> InitialWander]

ActiveSet(group) == { i \in 1..Len(group) : group[i].active }
countActive(group) == Cardinality(ActiveSet(group))

(* The nearest-search loop of tryAttachAt and of helperBrain: visit the    *)
(* children from index i on, keep the current best, replace it only by a   *)
(* strictly smaller distance.                                              *)
(* Mutant of scanNearest: a later bacterium at an equal distance replaces  *)
(* the current best.                                                       *)
RECURSIVE scanNearest_lastOnTie(_, _, _, _, _, _)
scanNearest_lastOnTie(bs, px, i, best, bestD, skipInfected) ==
    IF i > Len(bs) THEN [target |-> best, d |-> bestD]
    ELSE IF ~bs[i].active \/ (skipInfected /\ bs[i].infected)
         THEN scanNearest_lastOnTie(bs, px, i + 1, best, bestD, skipInfected)
         ELSE IF Dist(px, bs[i].x) <= bestD
              THEN scanNearest_lastOnTie(bs, px, i + 1, i, Dist(px, bs[i].x), skipInfected)
              ELSE scanNearest_lastOnTie(bs, px, i + 1, best, bestD, skipInfected)

RECURSIVE scanNearest(_, _, _, _, _, _)
scanNearest(bs, px, i, best, bestD, skipInfected) ==
    IF i > Len(bs) THEN [target |-> best, d |-> bestD]
    ELSE IF ~bs[i].active \/ (skipInfected /\ bs[i].infected)
         THEN scanNearest(bs, px, i + 1, best, bestD, skipInfected)
         ELSE IF Dist(px, bs[i].x) < bestD
              THEN scanNearest(bs, px, i + 1, i, Dist(px, bs[i].x), skipInfected)
              ELSE scanNearest(bs, px, i + 1, best, bestD, skipInfected)

(* let bestD2 = Infinity (tryAttachAt); let bestD2 = 999999 (helperBrain): *)
(* d2 < 999999 px^2 is Dist < 1000 px for positions in thousandths.        *)
InfinityD == 1000000000
helperBestD == 1000 * Milli

-----------------------------------------------------------------------------
(* Helper spawning and lysis                                               *)

(* spawnHelperPhageNear(x, y): cosA is cos(angle) on the diameter, r the   *)
(* FloatBetween(10, 30) draw, killerDraw the Math.random() of the role.    *)
spawnHelperPhageNear(S, x, cosA, r, killerDraw) ==
    [S EXCEPT !.helpers = Append(@, Helper(x + cosA * r, killerDraw < killerHelperChance))]

(* Mutant of spawnHelpers: the cap test forgotten.                         *)
RECURSIVE spawnHelpers_noCap(_, _, _, _)
spawnHelpers_noCap(S, x, rnd, i) ==
    IF i >= 2 THEN S
    ELSE spawnHelpers_noCap(spawnHelperPhageNear(S, x, rnd.cosA, rnd.r, rnd.killer[i + 1]),
                            x, rnd, i + 1)

(* The loop "for (let i = 0; i < 2; i++)" of lysis, from iteration i on.   *)
RECURSIVE spawnHelpers(_, _, _, _)
spawnHelpers(S, x, rnd, i) ==
    IF i >= 2 THEN S
    ELSE IF countActive(S.helpers) >= S.maxHelpers THEN S
         ELSE spawnHelpers(spawnHelperPhageNear(S, x, rnd.cosA, rnd.r, rnd.killer[i + 1]),
                           x, rnd, i + 1)

(* Mutant of lysis: the helper loop forgotten.                             *)
lysis_noHelpers(S, b, rnd, by) ==
    IF b = NULL \/ ~S.bacteria[b].active THEN S
    ELSE LET S1 == [S EXCEPT !.bacteria[b].active = FALSE,
                             !.score = @ + 1]
         IN  [S1 EXCEPT !.lysisLog =
                 Append(@, [h |-> by, b |-> b,
                            helpersBefore |-> countActive(S.helpers),
                            helpersAfter |-> countActive(S1.helpers)])]

(* lysis(b).  by is who called it (h = 0: the player's completed           *)
(* injection; h > 0: helper h): it goes to the observation log only.       *)
(* Mutants of lysis: the score forgotten; the inactive guard forgotten.    *)
lysis_scoreForgotten(S, b, rnd, by) ==
    IF b = NULL \/ ~S.bacteria[b].active THEN S
    ELSE LET S1 == [S EXCEPT !.bacteria[b].active = FALSE]
             S2 == spawnHelpers(S1, S.bacteria[b].x, rnd, 0)
         IN  [S2 EXCEPT !.lysisLog =
                 Append(@, [h |-> by, b |-> b,
                            helpersBefore |-> countActive(S.helpers),
                            helpersAfter |-> countActive(S2.helpers)])]

(* Mutant of lysis: the call of disableBody forgotten.                     *)
lysis_noDisable(S, b, rnd, by) ==
    IF b = NULL \/ ~S.bacteria[b].active THEN S
    ELSE LET S1 == [S EXCEPT !.score = @ + 1]
             S2 == spawnHelpers(S1, S.bacteria[b].x, rnd, 0)
         IN  [S2 EXCEPT !.lysisLog =
                 Append(@, [h |-> by, b |-> b,
                            helpersBefore |-> countActive(S.helpers),
                            helpersAfter |-> countActive(S2.helpers)])]

lysis_noActiveGuard(S, b, rnd, by) ==
    IF b = NULL THEN S
    ELSE LET S1 == [S EXCEPT !.bacteria[b].active = FALSE,
                             !.score = @ + 1]
             S2 == spawnHelpers(S1, S.bacteria[b].x, rnd, 0)
         IN  [S2 EXCEPT !.lysisLog =
                 Append(@, [h |-> by, b |-> b,
                            helpersBefore |-> countActive(S.helpers),
                            helpersAfter |-> countActive(S2.helpers)])]

lysis(S, b, rnd, by) ==
    IF b = NULL \/ ~S.bacteria[b].active THEN S
    ELSE LET S1 == [S EXCEPT !.bacteria[b].active = FALSE,
                             !.score = @ + 1]
             S2 == spawnHelpers(S1, S.bacteria[b].x, rnd, 0)
         IN  [S2 EXCEPT !.lysisLog =
                 Append(@, [h |-> by, b |-> b,
                            helpersBefore |-> countActive(S.helpers),
                            helpersAfter |-> countActive(S2.helpers)])]

-----------------------------------------------------------------------------
(* Injection                                                               *)

(* Mutant of the duration: the cap of 900 forgotten.                       *)
injectDurationFor_noCap(n) == baseInjectDuration + n * 18

(* The duration startInjecting computes from the active count n.           *)
injectDurationFor(n) == baseInjectDuration + Min(900, n * 18)

startInjecting(S, b, timeNow) ==
    IF b = NULL \/ ~S.bacteria[b].active THEN S
    ELSE [S EXCEPT !.attachedTarget = b,
                   !.injecting = TRUE,
                   !.injectDuration = injectDurationFor(countActive(S.bacteria)),
                   !.injectStartTime = timeNow,
                   !.bacteria[b].infected = TRUE]

(* Mutant of stopInjecting: the infected flag left on the target.          *)
stopInjecting_keepInfected(S) ==
    [S EXCEPT !.injecting = FALSE, !.attachedTarget = NULL]

stopInjecting(S) ==
    LET S1 == [S EXCEPT !.injecting = FALSE]
        S2 == IF S1.attachedTarget # NULL
              THEN [S1 EXCEPT !.bacteria[S1.attachedTarget].infected = FALSE]
              ELSE S1
    IN  [S2 EXCEPT !.attachedTarget = NULL]

(* Mutant of tryAttachAt: the "if (this.injecting) return" forgotten.      *)
tryAttachAt_noInjectingGuard(S, x, timeNow) ==
    LET best == scanNearest(S.bacteria, x, 1, NULL, InfinityD, FALSE).target
    IN  IF best = NULL THEN S
        ELSE IF Dist(S.player.x, S.bacteria[best].x) > attachRange THEN S
             ELSE startInjecting(S, best, timeNow)

(* Mutant of tryAttachAt: the attachRange test forgotten.                  *)
tryAttachAt_noRangeTest(S, x, timeNow) ==
    IF S.injecting THEN S
    ELSE startInjecting(S, scanNearest(S.bacteria, x, 1, NULL, InfinityD, FALSE).target, timeNow)

(* Mutant of tryAttachAt: a distance equal to attachRange rejected.        *)
tryAttachAt_strictRange(S, x, timeNow) ==
    IF S.injecting THEN S
    ELSE LET best == scanNearest(S.bacteria, x, 1, NULL, InfinityD, FALSE).target
         IN  IF best = NULL THEN S
             ELSE IF Dist(S.player.x, S.bacteria[best].x) >= attachRange THEN S
                  ELSE startInjecting(S, best, timeNow)

tryAttachAt(S, x, timeNow) ==
    IF S.injecting THEN S
    ELSE LET best == scanNearest(S.bacteria, x, 1, NULL, InfinityD, FALSE).target
         IN  IF best = NULL THEN S
             ELSE IF Dist(S.player.x, S.bacteria[best].x) > attachRange THEN S
                  ELSE startInjecting(S, best, timeNow)

(* Mutant of the handler: the gameOver test forgotten.                     *)
pointerdown_noGameOverGuard(S, x, timeNow) ==
    IF S.tutorialActive THEN S
    ELSE tryAttachAt(S, x, timeNow)

(* The scene's "pointerdown" handler.                                      *)
pointerdown(S, x, timeNow) ==
    IF S.gameOver \/ S.tutorialActive THEN S
    ELSE tryAttachAt(S, x, timeNow)

(* Mutant of endGame: the call of stopInjecting forgotten.                 *)
endGame_noStop(S, won) ==
    [S EXCEPT !.gameOver = TRUE,
              !.won = IF won THEN "win" ELSE "loss",
              !.endGameCalls = @ + 1,
              !.injectionEnd = IF S.injecting THEN "cancelled" ELSE @]

(* Mutant of endGame: the helpers are disabled with the session.           *)
endGame_clearHelpers(S, won) ==
    stopInjecting([S EXCEPT !.gameOver = TRUE,
                            !.won = IF won THEN "win" ELSE "loss",
                            !.endGameCalls = @ + 1,
                            !.injectionEnd = IF S.injecting THEN "cancelled" ELSE @,
                            !.helpers = [h \in 1..Len(S.helpers) |->
                                            [S.helpers[h] EXCEPT !.active = FALSE]]])

(* endGame(won).  injectionEnd observes an injection it cancels.           *)
endGame(S, won) ==
    stopInjecting([S EXCEPT !.gameOver = TRUE,
                            !.won = IF won THEN "win" ELSE "loss",
                            !.endGameCalls = @ + 1,
                            !.injectionEnd = IF S.injecting THEN "cancelled" ELSE @])

-----------------------------------------------------------------------------
(* behaviors.js: helperBrain(scene, h, dt).  strikeDraw is its             *)
(* Math.random(); rnd holds the draws of the helpers a lysis spawns.       *)
(* The acceleration, rotation and wanderAngle it sets are not in the       *)
(* state.                                                                  *)

strikeCooldown == 1500
strikeRange == 34 * Milli

(* Angles are in thousandths of a radian.                                  *)
PiMilli == 3142

(* The movement part of helperBrain (lines 35-57).  found is the scan's    *)
(* result, wanderDraw the FloatBetween(-0.9, 0.9) draw in thousandths.     *)
(* On the diameter the line to the target is horizontal: the seek          *)
(* acceleration points at 0 or pi, the tangent (-(ty - hy), tx - hx) at    *)
(* pi / 2 or -pi / 2; normalize() leaves a zero vector zero.               *)
seekRange == 320 * Milli
orbitRange == 70 * Milli
seekAccel == 260
orbitAccel == 160
wanderAccel == 160
HalfPiMilli == 1571

(* Mutant of steer: the tangential override applied at every distance.     *)
steer_alwaysOrbit(S, h, found, dtMs, wanderDraw) ==
    IF found.target # NULL /\ found.d < seekRange
    THEN LET right == S.bacteria[found.target].x > S.helpers[h].x
         IN  [S EXCEPT !.helpers[h].accMag = IF found.d = 0 THEN 0 ELSE orbitAccel,
                       !.helpers[h].accDir = IF right THEN HalfPiMilli ELSE -HalfPiMilli]
    ELSE LET a == S.helpers[h].wanderAngle + (wanderDraw * dtMs) \div 1000
         IN  [S EXCEPT !.helpers[h].wanderAngle = a,
                       !.helpers[h].accMag = wanderAccel,
                       !.helpers[h].accDir = a]

steer(S, h, found, dtMs, wanderDraw) ==
    IF found.target # NULL /\ found.d < seekRange
    THEN LET right == S.bacteria[found.target].x > S.helpers[h].x
         IN  IF found.d < orbitRange
             THEN [S EXCEPT !.helpers[h].accMag = IF found.d = 0 THEN 0 ELSE orbitAccel,
                            !.helpers[h].accDir = IF right THEN HalfPiMilli ELSE -HalfPiMilli]
             ELSE [S EXCEPT !.helpers[h].accMag = seekAccel,
                            !.helpers[h].accDir = IF right THEN 0 ELSE PiMilli]
    ELSE LET a == S.helpers[h].wanderAngle + (wanderDraw * dtMs) \div 1000
         IN  [S EXCEPT !.helpers[h].wanderAngle = a,
                       !.helpers[h].accMag = wanderAccel,
                       !.helpers[h].accDir = a]

sinceAfter(since, dtMs) == IF since < 0 THEN since ELSE Min(strikeCooldown, since + dtMs)

(* Mutant of helperBrain: the cooldown decremented twice per frame.        *)
helperBrain_doubleDecrement(S, h, dtMs, strikeDraw, rnd) ==
    LET found == scanNearest(S.bacteria, S.helpers[h].x, 1, NULL, helperBestD, TRUE)
        cooldown == Max(0, S.helpers[h].cooldown - 2 * dtMs)
        S1 == [steer(S, h, found, dtMs, rnd.wander) EXCEPT !.helpers[h].cooldown = cooldown,
                     !.helpers[h].sinceStrike = sinceAfter(@, dtMs)]
        p == Clamp(killerLysisChancePerSec * dtMs, 0, Milli * Milli)
    IN  IF S.helpers[h].killer /\ found.target # NULL /\ cooldown <= 0 /\ found.d < strikeRange
        THEN IF strikeDraw * Milli < p
             THEN [lysis(S1, found.target, rnd, h) EXCEPT !.helpers[h].cooldown = strikeCooldown,
                                                                !.helpers[h].sinceStrike = 0]
             ELSE S1
        ELSE S1

(* Mutant of helperBrain: the cooldown test forgotten.                     *)
helperBrain_noCooldownTest(S, h, dtMs, strikeDraw, rnd) ==
    LET found == scanNearest(S.bacteria, S.helpers[h].x, 1, NULL, helperBestD, TRUE)
        cooldown == Max(0, S.helpers[h].cooldown - dtMs)
        S1 == [steer(S, h, found, dtMs, rnd.wander) EXCEPT !.helpers[h].cooldown = cooldown,
                     !.helpers[h].sinceStrike = sinceAfter(@, dtMs)]
        p == Clamp(killerLysisChancePerSec * dtMs, 0, Milli * Milli)
    IN  IF S.helpers[h].killer /\ found.target # NULL /\ found.d < strikeRange
        THEN IF strikeDraw * Milli < p
             THEN [lysis(S1, found.target, rnd, h) EXCEPT !.helpers[h].cooldown = strikeCooldown,
                                                !.helpers[h].sinceStrike = 0]
             ELSE S1
        ELSE S1

(* Mutant of helperScan: infected bacteria not skipped.                    *)
helperScan_noInfectedSkip(S, h) ==
    scanNearest(S.bacteria, S.helpers[h].x, 1, NULL, helperBestD, FALSE)

(* The scan of helperBrain: the nearest active non-infected bacterium.     *)
helperScan(S, h) ==
    scanNearest(S.bacteria, S.helpers[h].x, 1, NULL, helperBestD, TRUE)

helperBrain(S, h, dtMs, strikeDraw, rnd) ==
    LET found == helperScan(S, h)
        target == found.target
        bestD == found.d
        isKiller == S.helpers[h].killer
        cooldown == Max(0, S.helpers[h].cooldown - dtMs)
        S1 == [steer(S, h, found, dtMs, rnd.wander) EXCEPT !.helpers[h].cooldown = cooldown,
                     !.helpers[h].sinceStrike = sinceAfter(@, dtMs)]
        p == Clamp(killerLysisChancePerSec * dtMs, 0, Milli * Milli)
    IN  IF isKiller /\ target # NULL /\ cooldown <= 0 /\ bestD < strikeRange
        THEN IF strikeDraw * Milli < p
             THEN [lysis(S1, target, rnd, h) EXCEPT !.helpers[h].cooldown = strikeCooldown,
                                                !.helpers[h].sinceStrike = 0]
             ELSE S1
        ELSE S1

(* this.helpers.children.iterate(...) of update, from child h to child n   *)
(* (the children present when the iteration started).                      *)
RECURSIVE iterateHelpers(_, _, _, _, _)
iterateHelpers(S, h, n, dtMs, rnd) ==
    IF h > n THEN S
    ELSE IF ~S.helpers[h].active THEN iterateHelpers(S, h + 1, n, dtMs, rnd)
         ELSE LET S1 == helperBrain(S, h, dtMs, rnd.strike[h], rnd)
                  S2 == [S1 EXCEPT !.helpers[h].x = constrainToDish(@)]
              IN  iterateHelpers(S2, h + 1, n, dtMs, rnd)

(* this.bacteria.children.iterate(...) of update: bacteriaDrift changes    *)
(* velocity and rotation only; constrainToDish(b).                         *)
iterateBacteria(S) ==
    [S EXCEPT !.bacteria =
        [i \in 1..Len(S.bacteria) |->
            IF S.bacteria[i].active
            THEN [S.bacteria[i] EXCEPT !.x = constrainToDish(S.bacteria[i].x)]
            ELSE S.bacteria[i]]]

(* Injection progress p of update, in thousandths.                         *)
injectProgress(S, t) ==
    Clamp(((t - S.injectStartTime) * Milli) \div S.injectDuration, 0, Milli)

(* Phaser.Math.Angle.RotateTo(currentAngle, targetAngle, lerp).            *)
RotateTo(currentAngle, targetAngle, lerp) ==
    IF currentAngle = targetAngle THEN currentAngle
    ELSE IF Abs(targetAngle - currentAngle) <= lerp
            \/ Abs(targetAngle - currentAngle) >= 2 * PiMilli - lerp
         THEN targetAngle
         ELSE LET tgt == IF Abs(targetAngle - currentAngle) > PiMilli
                         THEN IF targetAngle < currentAngle
                              THEN targetAngle + 2 * PiMilli
                              ELSE targetAngle - 2 * PiMilli
                         ELSE targetAngle
              IN  IF tgt > currentAngle THEN currentAngle + lerp
                  ELSE IF tgt < currentAngle THEN currentAngle - lerp
                       ELSE currentAngle

(* The player's thrust (px/s^2), and the speed above which the heading     *)
(* follows the velocity: vel.lengthSq() > 20 is |v| > 4.472 px/s, and for  *)
(* integer thousandths v * v > 20000000 exactly when |v| > 4472.           *)
playerSpeed == 520
headingMinSpeed == 4472

(* The heading part of handleMovement: Angle.Between(0, 0, vel.x, 0) is 0  *)
(* for a velocity to the right and pi for one to the left.                 *)
turnToVelocity(S, dtMs) ==
    IF Abs(S.player.vx) > headingMinSpeed
    THEN [S EXCEPT !.player.rotation =
              RotateTo(@, IF S.player.vx > 0 THEN 0 ELSE PiMilli, 6 * dtMs)]
    ELSE S

(* Mutant of handleMovement: the "if (this.injecting) return" forgotten.   *)
handleMovement_noInjectingGuard(S, dtMs, move) ==
    turnToVelocity([S EXCEPT !.player.ax = move * playerSpeed * Milli], dtMs)

(* handleMovement(dt).  move is the horizontal key state: -1 left, 1       *)
(* right, 0 none or both.                                                  *)
handleMovement(S, dtMs, move) ==
    IF S.injecting THEN S
    ELSE turnToVelocity([S EXCEPT !.player.ax = move * playerSpeed * Milli], dtMs)

(* constrainToDish(this.player): the position is clamped to maxR and the   *)
(* velocity reflected across the normal and scaled by 0.65.                *)
constrainPlayer(S) ==
    IF Abs(S.player.x - centerX) > maxR
    THEN [S EXCEPT !.player.x = constrainToDish(@),
                   !.player.vx = -((@ * 65) \div 100)]
    ELSE S

(* Mutant of the injection step: the test of attachedTarget.active         *)
(* forgotten.                                                              *)
injectionStep_noActiveTest(S, t, rnd) ==
    IF S.injecting /\ S.attachedTarget # NULL
    THEN LET S1 == [S EXCEPT !.player.vx = 0, !.player.x = S.bacteria[S.attachedTarget].x]
         IN  IF injectProgress(S1, t) >= Milli
             THEN [stopInjecting(lysis(S1, S1.attachedTarget, rnd, 0))
                      EXCEPT !.injectionEnd = "completed"]
             ELSE S1
    ELSE IF S.injecting THEN [stopInjecting(S) EXCEPT !.injectionEnd = "aborted"]
         ELSE S

(* Mutant of the injection step: the duration follows the population of    *)
(* the current frame.                                                      *)
injectionStep_liveDuration(S, t, rnd) ==
    IF S.injecting /\ S.attachedTarget # NULL /\ S.bacteria[S.attachedTarget].active
    THEN LET S1 == [S EXCEPT !.player.vx = 0, !.player.x = S.bacteria[S.attachedTarget].x,
                             !.injectDuration = injectDurationFor(countActive(S.bacteria))]
         IN  IF injectProgress(S1, t) >= Milli
             THEN [stopInjecting(lysis(S1, S1.attachedTarget, rnd, 0))
                      EXCEPT !.injectionEnd = "completed"]
             ELSE S1
    ELSE IF S.injecting THEN [stopInjecting(S) EXCEPT !.injectionEnd = "aborted"]
         ELSE S

(* Mutant of the injection step: completion asks for a progress above 1,   *)
(* which the clamp never yields.                                           *)
injectionStep_strictProgress(S, t, rnd) ==
    IF S.injecting /\ S.attachedTarget # NULL /\ S.bacteria[S.attachedTarget].active
    THEN LET S1 == [S EXCEPT !.player.vx = 0, !.player.x = S.bacteria[S.attachedTarget].x]
         IN  IF injectProgress(S1, t) > Milli
             THEN [stopInjecting(lysis(S1, S1.attachedTarget, rnd, 0))
                      EXCEPT !.injectionEnd = "completed"]
             ELSE S1
    ELSE IF S.injecting THEN [stopInjecting(S) EXCEPT !.injectionEnd = "aborted"]
         ELSE S

(* update, lines 215-241: the injection step.  injectionEnd observes how   *)
(* an injection ended in this frame.                                       *)
injectionStep(S, t, rnd) ==
    IF S.injecting /\ S.attachedTarget # NULL /\ S.bacteria[S.attachedTarget].active
    THEN LET S1 == [S EXCEPT !.player.vx = 0, !.player.x = S.bacteria[S.attachedTarget].x]
         IN  IF injectProgress(S1, t) >= Milli
             THEN [stopInjecting(lysis(S1, S1.attachedTarget, rnd, 0))
                      EXCEPT !.injectionEnd = "completed"]
             ELSE S1
    ELSE IF S.injecting THEN [stopInjecting(S) EXCEPT !.injectionEnd = "aborted"]
         ELSE S

(* Mutant of the evaluation: the loss tested first.                        *)
evaluateEnd_lossFirst(S) ==
    IF countActive(S.bacteria) >= S.loseThreshold THEN endGame(S, FALSE)
    ELSE IF S.score >= S.neededToWin THEN endGame(S, TRUE)
         ELSE S

(* Mutant of the evaluation: two independent tests instead of if / else    *)
(* if.                                                                     *)
evaluateEnd_noElse(S) ==
    LET S1 == IF S.score >= S.neededToWin THEN endGame(S, TRUE) ELSE S
    IN  IF countActive(S1.bacteria) >= S1.loseThreshold THEN endGame(S1, FALSE) ELSE S1

(* Mutant of the evaluation: the loss needs a count above the threshold.   *)
evaluateEnd_strictLoss(S) ==
    IF S.score >= S.neededToWin THEN endGame(S, TRUE)
    ELSE IF countActive(S.bacteria) > S.loseThreshold THEN endGame(S, FALSE)
         ELSE S

(* update, lines 243-248: win / lose evaluation.                           *)
evaluateEnd(S) ==
    IF S.score >= S.neededToWin THEN endGame(S, TRUE)
    ELSE IF countActive(S.bacteria) >= S.loseThreshold THEN endGame(S, FALSE)
         ELSE S

(* Mutant of update: the "if (this.gameOver) return" forgotten.            *)
update_noGameOverGuard(S, t, dtMs, rnd) ==
    IF S.tutorialActive THEN S
    ELSE LET S1 == [S EXCEPT !.elapsedSeconds = @ + dtMs, !.ticked = TRUE]
             S2 == constrainPlayer(handleMovement(S1, dtMs, rnd.move))
             S3 == iterateHelpers(S2, 1, Len(S2.helpers), dtMs, rnd)
             S4 == iterateBacteria(S3)
             S5 == injectionStep(S4, t, rnd)
         IN  evaluateEnd(S5)

(* Mutant of update: the session's end evaluated before the injection     *)
(* step.                                                                   *)
update_endBeforeInjection(S, t, dtMs, rnd) ==
    IF S.tutorialActive THEN S
    ELSE IF S.gameOver THEN S
    ELSE LET S1 == [S EXCEPT !.elapsedSeconds = @ + dtMs, !.ticked = TRUE]
             S2 == constrainPlayer(handleMovement(S1, dtMs, rnd.move))
             S3 == iterateHelpers(S2, 1, Len(S2.helpers), dtMs, rnd)
             S4 == evaluateEnd(iterateBacteria(S3))
         IN  IF S4.gameOver THEN S4 ELSE injectionStep(S4, t, rnd)

(* update(t, dtMs).  elapsedSeconds is kept in milliseconds.  ticked       *)
(* observes that the frame was simulated (update passed its two guards).   *)
update(S, t, dtMs, rnd) ==
    IF S.tutorialActive THEN S
    ELSE IF S.gameOver THEN S
    ELSE LET S1 == [S EXCEPT !.elapsedSeconds = @ + dtMs, !.ticked = TRUE]
             S2 == constrainPlayer(handleMovement(S1, dtMs, rnd.move))
             S3 == iterateHelpers(S2, 1, Len(S2.helpers), dtMs, rnd)
             S4 == iterateBacteria(S3)
             S5 == injectionStep(S4, t, rnd)
         IN  evaluateEnd(S5)

-----------------------------------------------------------------------------
(* Spawner: spawnBacterium, spawnBacteriumNearExisting, the reproEvent     *)
(* callback                                                                *)

spawnBacterium(S, cosT, rPermille) ==
    [S EXCEPT !.bacteria = Append(@, Bacterium(randomPointInDish(spawnRadius, cosT, rPermille)))]

(* The active children in iteration order: getChildren().filter(active).   *)
activeList(bs) ==
    LET isActive(i) == bs[i].active
    IN  SelectSeq([i \in 1..Len(bs) |-> i], isActive)

(* Mutant of spawnBacteriumNearExisting: the slot of a lysed bacterium is  *)
(* taken again instead of a new child being created.                       *)
spawnBacteriumNearExisting_recycle(S, rnd) ==
    LET list == activeList(S.bacteria)
        dead == { i \in 1..Len(S.bacteria) : ~S.bacteria[i].active }
    IN  IF Len(list) = 0 THEN spawnBacterium(S, rnd.cosT, rnd.rPermille)
        ELSE LET parent == list[((rnd.parentDraw * Len(list)) \div Milli) + 1]
                 p == S.bacteria[parent].x + rnd.cosA * rnd.r
                 child == Bacterium(clampToDishPoint(spawnRadius, p))
             IN  IF dead = {}
                 THEN [S EXCEPT !.bacteria = Append(@, child)]
                 ELSE [S EXCEPT !.bacteria[CHOOSE i \in dead : \A j \in dead : i <= j] = child]

(* Mutant of spawnBacteriumNearExisting: the child's position not clamped. *)
spawnBacteriumNearExisting_noClamp(S, rnd) ==
    LET list == activeList(S.bacteria)
    IN  IF Len(list) = 0 THEN spawnBacterium(S, rnd.cosT, rnd.rPermille)
        ELSE LET parent == list[((rnd.parentDraw * Len(list)) \div Milli) + 1]
             IN  [S EXCEPT !.bacteria =
                     Append(@, Bacterium(S.bacteria[parent].x + rnd.cosA * rnd.r))]

(* parentDraw is the draw of GetRandom (thousandths), cosA and r the       *)
(* angle and FloatBetween(18, 44) draws; cosT, rPermille those of the      *)
(* fallback randomPointInDish.                                             *)
spawnBacteriumNearExisting(S, rnd) ==
    LET list == activeList(S.bacteria)
    IN  IF Len(list) = 0 THEN spawnBacterium(S, rnd.cosT, rnd.rPermille)
        ELSE LET parent == list[((rnd.parentDraw * Len(list)) \div Milli) + 1]
                 p == S.bacteria[parent].x + rnd.cosA * rnd.r
             IN  [S EXCEPT !.bacteria =
                     Append(@, Bacterium(clampToDishPoint(spawnRadius, p)))]

(* timeRamp and popRamp in units of 1 / RampUnit (RampUnit = lcm(40000,    *)
(* 22)), chance in units of 1 / (100 * RampUnit).                          *)
RampUnit == 40 * Milli * 11
hardCap == 110
timeRamp(S) == Clamp(S.elapsedSeconds * 11, 0, (22 * RampUnit) \div 10)
popRamp(n) == Clamp(n * 20000, 0, 2 * RampUnit)
(* Mutant of reproAttempts: the time ramp left out.                        *)
reproAttempts_noTimeRamp(S, n) == 2 + (popRamp(n) \div RampUnit)
reproAttempts(S, n) == 2 + ((timeRamp(S) + popRamp(n)) \div RampUnit)
reproChance(S, n) ==
    Clamp(30 * RampUnit + 16 * timeRamp(S) + 14 * popRamp(n), 30 * RampUnit, 92 * RampUnit)

(* Mutant of the loop: the test n < 110 forgotten.                         *)
RECURSIVE reproLoop_noCap(_, _, _, _, _)
reproLoop_noCap(S, S0, n, i, rnd) ==
    IF i >= reproAttempts(S0, n) THEN S
    ELSE IF rnd.draw[i + 1] * (RampUnit \div 10) < reproChance(S0, n)
         THEN reproLoop_noCap(spawnBacteriumNearExisting(S, rnd), S0, n, i + 1, rnd)
         ELSE reproLoop_noCap(S, S0, n, i + 1, rnd)

(* The for loop of the callback, from attempt i on; n is the count sampled *)
(* before the loop, S0 the scene at that moment.                           *)
RECURSIVE reproLoop(_, _, _, _, _)
reproLoop(S, S0, n, i, rnd) ==
    IF i >= reproAttempts(S0, n) THEN S
    ELSE IF rnd.draw[i + 1] * (RampUnit \div 10) < reproChance(S0, n) /\ n < hardCap
         THEN reproLoop(spawnBacteriumNearExisting(S, rnd), S0, n, i + 1, rnd)
         ELSE reproLoop(S, S0, n, i + 1, rnd)

(* Mutant of the callback: the tutorialActive test forgotten.              *)
reproCallback_noTutorialGuard(S, rnd) ==
    IF S.gameOver THEN S
    ELSE reproLoop([S EXCEPT !.fireN = countActive(S.bacteria)], S,
                   countActive(S.bacteria), 0, rnd)

(* The reproEvent callback.  fireN observes the count n it sampled.        *)
reproCallback(S, rnd) ==
    IF S.gameOver \/ S.tutorialActive THEN S
    ELSE reproLoop([S EXCEPT !.fireN = countActive(S.bacteria)], S,
                   countActive(S.bacteria), 0, rnd)

-----------------------------------------------------------------------------
(* Tutorial                                                                *)

lastTutorialStep == 5

startTutorial(S) == [S EXCEPT !.tutorialActive = TRUE, !.tutorialStep = 0]

endTutorial(S) == [S EXCEPT !.tutorialActive = FALSE]

renderTutorialStep(S) ==
    IF S.tutorialStep <= lastTutorialStep THEN S ELSE endTutorial(S)

(* this._tutorialAdvance: overlay pointerdown, or SPACE.                   *)
tutorialAdvance(S) ==
    IF ~S.tutorialActive THEN S
    ELSE renderTutorialStep([S EXCEPT !.tutorialStep = @ + 1])

-----------------------------------------------------------------------------
(* create(): the session built from the settings; seeds[i] = <<cosT,       *)
(* rPermille>> are the draws of the i-th initial spawnBacterium().         *)

seedCount == 10

RECURSIVE seedBacteria(_, _, _)
seedBacteria(S, seeds, i) ==
    IF i > seedCount THEN S
    ELSE seedBacteria(spawnBacterium(S, seeds[i][1], seeds[i][2]), seeds, i + 1)

create(settings, seeds) ==
    startTutorial(seedBacteria(
        [ score |-> 0,
          neededToWin |-> settings.neededToWin,
          loseThreshold |-> settings.loseThreshold,
          gameOver |-> FALSE,
          maxHelpers |-> settings.maxHelpers,
          bacteria |-> <<>>,
          helpers |-> <<>>,
          player |-> [x |-> centerX, vx |-> 0, ax |-> 0, rotation |-> 0],
          elapsedSeconds |-> 0,
          attachedTarget |-> NULL,
          injecting |-> FALSE,
          injectStartTime |-> 0,
          injectDuration |-> baseInjectDuration,
          tutorialActive |-> FALSE,
          tutorialStep |-> 0,
          \* observation fields
          won |-> "none",
          endGameCalls |-> 0,
          lysisLog |-> <<>>,
          ticked |-> FALSE,
          fireN |-> -1,
          injectionEnd |-> "none",
          pickX |-> -1,
          fireDraw |-> <<>> ],
        seeds, 1))

settingsOf(S) ==
    [neededToWin |-> S.neededToWin, loseThreshold |-> S.loseThreshold,
     maxHelpers |-> S.maxHelpers]

-----------------------------------------------------------------------------
(* Sampled inputs                                                          *)

(* Seeds: a bacterium 21.9 px right of the center and one as far left (a   *)
(* tie for a pick at the center), a neighbour 21.9 px further, a chain     *)
(* outwards in hops below attachRange, and one next to each rim.           *)
SeedLayout ==
    << <<1, 100>>, <<-1, 100>>, <<1, 200>>, <<1, 400>>, <<1, 700>>,
       <<1, 950>>, <<1, 999>>, <<-1, 400>>, <<-1, 700>>, <<-1, 999>> >>

SeedLayouts == { SeedLayout }

(* Frame deltas (ms) and the bound on the scene clock.                     *)
DtChoices == {500, 1000}
MaxNow == 2000

(* Pick points: the center (a tie between the two nearest seeds), the      *)
(* right neighbour, and a point whose nearest bacterium is out of range    *)
(* from the center.                                                        *)
PickXs == { centerX, centerX + 44 * Milli, centerX + 150 * Milli }

(* Math.random() draws: one below and one above every threshold used.      *)
LowDraw == 0
HighDraw == 950
Draws == {LowDraw, HighDraw}

CosChoices == {1, -1}
HelperSpawnR == 30 * Milli
ChildSpawnR == 18 * Milli

(* The most attempts of a fire: 2 + floor(2.2 + 2.0).                      *)
MaxAttempts == 6

(* Bound on the number of bacteria ever created in a session.              *)
MaxBacteria == 12

(* The draws of one update.  A draw the code cannot make in this frame (a  *)
(* swarmer's strike draw, the spawn draws when no lysis can happen) is not *)
(* enumerated: it takes one fixed value.                                   *)
StrikeDraws(S, h) ==
    IF S.helpers[h].killer /\ ~S.tutorialActive /\ ~S.gameOver THEN Draws ELSE {LowDraw}

CanLyse(S) ==
    /\ ~S.tutorialActive /\ ~S.gameOver
    /\ S.injecting \/ \E h \in 1..Len(S.helpers) : S.helpers[h].killer

(* The FloatBetween(-0.9, 0.9) draw of wandering helpers (thousandths of a *)
(* radian per second; one value for all helpers of a frame), enumerated    *)
(* when a helper has no target within seekRange.                           *)
WanderRate == 900

WanderDraws(S) ==
    IF /\ ~S.tutorialActive /\ ~S.gameOver
       /\ \E h \in 1..Len(S.helpers) :
              helperScan(S, h).target = NULL \/ helperScan(S, h).d >= seekRange
    THEN {WanderRate, -WanderRate}
    ELSE {WanderRate}

TickRnd(S) ==
    { [strike |-> st, cosA |-> c, r |-> HelperSpawnR, killer |-> k, move |-> 0,
       wander |-> w] :
        st \in { f \in [1..Len(S.helpers) -> Draws] :
                   \A h \in 1..Len(S.helpers) : f[h] \in StrikeDraws(S, h) },
        c \in IF CanLyse(S) THEN CosChoices ELSE {1},
        k \in IF CanLyse(S) THEN [1..2 -> Draws] ELSE {[i \in 1..2 |-> LowDraw]},
        w \in WanderDraws(S) }

(* The draws of a fire's attempts: the first k attempts draw low, the      *)
(* others high.                                                            *)
AttemptDraws ==
    { [i \in 1..MaxAttempts |-> IF i <= k THEN LowDraw ELSE HighDraw] : k \in 0..MaxAttempts }

ReproRnd ==
    { [draw |-> d, parentDraw |-> HighDraw, cosA |-> 1, r |-> ChildSpawnR,
       cosT |-> 1, rPermille |-> 500] :
        d \in AttemptDraws }

-----------------------------------------------------------------------------
(* The session as a state machine                                          *)

(* The observation fields are reset before each handler runs.              *)
clearObs(S) ==
    [S EXCEPT !.lysisLog = <<>>, !.ticked = FALSE, !.fireN = -1, !.injectionEnd = "none",
              !.pickX = -1, !.fireDraw = <<>>]

(* Which threshold the session reached first, seen between handlers.       *)
Crossed(first, S) ==
    IF first # "none" THEN first
    ELSE IF S.score >= S.neededToWin THEN "score"
         ELSE IF countActive(S.bacteria) >= S.loseThreshold THEN "count"
              ELSE "none"

Observe == firstReached' = Crossed(firstReached, scene')

Init ==
    /\ \E settings \in GAME_SETTINGS, seeds \in SeedLayouts :
           scene = create(settings, seeds)
    /\ now = 0
    /\ lastOp = "create"
    /\ firstReached = "none"

(* One frame: the clock advances by dtMs and update(t, dtMs) runs.         *)
Tick ==
    \E dtMs \in DtChoices :
        /\ now + dtMs <= MaxNow
        /\ \E rnd \in TickRnd(scene) :
               scene' = update(clearObs(scene), now + dtMs, dtMs, rnd)
        /\ now' = now + dtMs
        /\ lastOp' = "tick"
        /\ Observe

(* The reproEvent timer fires.                                             *)
ReproFire ==
    /\ Len(scene.bacteria) + reproAttempts(scene, countActive(scene.bacteria)) <= MaxBacteria
    /\ \E rnd \in ReproRnd : scene' = reproCallback(clearObs(scene), rnd)
    /\ lastOp' = "repro"
    /\ Observe
    /\ UNCHANGED now

(* A pointer press on the scene at x.                                      *)
Pick ==
    /\ \E x \in PickXs : scene' = pointerdown(clearObs(scene), x, now)
    /\ lastOp' = "pick"
    /\ Observe
    /\ UNCHANGED now

(* The tutorial's handler run alone while the overlay exists: the SPACE    *)
(* key.  (A pointer press on the overlay also reaches the scene's own      *)
(* pointerdown handler: see TutorialPress.)                                *)
TutorialAdvance ==
    /\ scene.tutorialActive
    /\ scene' = tutorialAdvance(clearObs(scene))
    /\ lastOp' = "tutorial"
    /\ Observe
    /\ UNCHANGED now

(* Mutant of restart: the score survives the restart.                      *)
restart_keepScore(S, seeds) == [create(settingsOf(S), seeds) EXCEPT !.score = S.score]

(* this.scene.restart(): the scene is shut down and create() runs again.   *)
restart(S, seeds) == create(settingsOf(S), seeds)

(* The New Game button of the end screen.                                  *)
Reset ==
    /\ scene.gameOver
    /\ \E seeds \in SeedLayouts : scene' = restart(scene, seeds)
    /\ lastOp' = "reset"
    /\ firstReached' = "none"
    /\ UNCHANGED now

Next == Tick \/ ReproFire \/ Pick \/ TutorialAdvance \/ Reset

Spec == Init /\ [][Next]_vars

-----------------------------------------------------------------------------
(* The session with the arcade physics displacing sprites between frames   *)

(* The displacement of one frame and the farthest sampled offset from the  *)
(* center (beyond 0.93 * dishRadius, so that a sprite can leave the dish). *)
StepPx == 120
MaxOffsetPx == 260
Displacements == { StepPx * Milli, -(StepPx * Milli) }

(* Pick points near the right rim.                                         *)
RimPickXs == { centerX + 207 * Milli }

(* The number of bacteria (in creation order) the sampled physics moves.   *)
MobileBacteria == 1

moveTo(x, d) == x + d
InSample(x) == Abs(x - centerX) <= MaxOffsetPx * Milli

(* World.postUpdate: a body's displacement is written to its sprite.  A    *)
(* disabled body is not moved.                                             *)
PhysicsStep ==
    /\ \E d \in Displacements :
          \/ /\ InSample(moveTo(scene.player.x, d))
             /\ scene' = [clearObs(scene) EXCEPT !.player.x = moveTo(@, d)]
          \/ \E h \in 1..Len(scene.helpers) :
                /\ scene.helpers[h].active
                /\ InSample(moveTo(scene.helpers[h].x, d))
                /\ scene' = [clearObs(scene) EXCEPT !.helpers[h].x = moveTo(@, d)]
          \/ \E b \in 1..Min(MobileBacteria, Len(scene.bacteria)) :
                /\ scene.bacteria[b].active
                /\ InSample(moveTo(scene.bacteria[b].x, d))
                /\ scene' = [clearObs(scene) EXCEPT !.bacteria[b].x = moveTo(@, d)]
    /\ lastOp' = "physics"
    /\ Observe
    /\ UNCHANGED now

RimPick ==
    /\ \E x \in RimPickXs : scene' = pointerdown(clearObs(scene), x, now)
    /\ lastOp' = "pick"
    /\ Observe
    /\ UNCHANGED now

(* ----- the session under a loseThreshold above the cap of 110 ----- *)

HighLoseThreshold == 200

PopSettings ==
    [neededToWin |-> SmallNeededToWin, loseThreshold |-> HighLoseThreshold,
     maxHelpers |-> SmallMaxHelpers]

InitPop ==
    /\ \E seeds \in SeedLayouts : scene = create(PopSettings, seeds)
    /\ now = 0
    /\ lastOp = "create"
    /\ firstReached = "none"

(* The reproEvent timer fires (no bound on the bacteria created: the       *)
(* callback itself stops creating).                                        *)
ReproFireUnbounded ==
    /\ \E rnd \in ReproRnd : scene' = reproCallback(clearObs(scene), rnd)
    /\ lastOp' = "repro"
    /\ Observe
    /\ UNCHANGED now

(* A long frame (the page was in the background).                          *)
LongDt == 30000
LongMaxNow == 90000

LongTick ==
    /\ now + LongDt <= LongMaxNow
    /\ \E rnd \in TickRnd(scene) :
           scene' = update(clearObs(scene), now + LongDt, LongDt, rnd)
    /\ now' = now + LongDt
    /\ lastOp' = "tick"
    /\ Observe

NextPop == LongTick \/ ReproFireUnbounded \/ TutorialAdvance

SpecPop == InitPop /\ [][NextPop]_vars

(* ----- the session with its injection target deactivated from outside ----- *)

(* Something other than lysis disables the body of the bacterium under     *)
(* injection (the scenario "externally deactivate the target").            *)
ExternalDeactivate ==
    /\ scene.injecting
    /\ scene.attachedTarget # NULL
    /\ scene.bacteria[scene.attachedTarget].active
    /\ scene' = [clearObs(scene) EXCEPT !.bacteria[scene.attachedTarget].active = FALSE]
    /\ lastOp' = "external"
    /\ Observe
    /\ UNCHANGED now

NextAbort == Tick \/ Pick \/ TutorialAdvance \/ ExternalDeactivate

SpecAbort == Init /\ [][NextAbort]_vars

(* ----- picks from sampled player positions, over a growing population ----- *)

AttachSettings ==
    { [neededToWin |-> 1, loseThreshold |-> HighLoseThreshold, maxHelpers |-> m] :
        m \in {1, SmallMaxHelpers} }

InitAttach ==
    /\ \E settings \in AttachSettings, seeds \in SeedLayouts :
           scene = create(settings, seeds)
    /\ now = 0
    /\ lastOp = "create"
    /\ firstReached = "none"

(* The position of seed i of the sampled layout.                           *)
SeedX(i) == randomPointInDish(spawnRadius, SeedLayout[i][1], SeedLayout[i][2])

(* Where the physics has taken the player: the center, the point exactly   *)
(* attachRange left of seed 4, and the point a thousandth further.         *)
PlayerXs == { centerX, SeedX(4) - attachRange, SeedX(4) - attachRange - 1 }

(* Pick points: the center (a tie), a point nearest to seed 4 and farther  *)
(* than attachRange from every sampled player position, and a point        *)
(* nearest to seed 5.                                                      *)
AttachPickXs == { centerX, centerX + 115 * Milli, centerX + 150 * Milli }

(* The population up to which the sampled fires run.                       *)
MaxGrowPop == 60

PlacePlayer ==
    /\ \E x \in PlayerXs :
           /\ x # scene.player.x
           /\ scene' = [clearObs(scene) EXCEPT !.player.x = x]
    /\ lastOp' = "physics"
    /\ Observe
    /\ UNCHANGED now

(* A pointer press on the scene at x; pickX observes the point.            *)
PickAt ==
    /\ \E x \in AttachPickXs :
           scene' = [pointerdown(clearObs(scene), x, now) EXCEPT !.pickX = x]
    /\ lastOp' = "pick"
    /\ Observe
    /\ UNCHANGED now

(* A reproEvent fire whose draws are all low.                              *)
GrowFire ==
    /\ countActive(scene.bacteria) <= MaxGrowPop
    /\ scene' = reproCallback(clearObs(scene),
                    [draw |-> [i \in 1..MaxAttempts |-> LowDraw], parentDraw |-> HighDraw,
                     cosA |-> 1, r |-> ChildSpawnR, cosT |-> 1, rPermille |-> 500])
    /\ lastOp' = "repro"
    /\ Observe
    /\ UNCHANGED now

NextAttach == PickAt \/ PlacePlayer \/ GrowFire \/ TutorialAdvance

SpecAttach == InitAttach /\ [][NextAttach]_vars

(* ----- the session with placed picks and frames, won by one lysis ----- *)

NextPick == PickAt \/ PlacePlayer \/ Tick \/ TutorialAdvance

SpecPick == InitAttach /\ [][NextPick]_vars

(* ----- the session won by one injection cycle ----- *)

CycleSettings ==
    { [neededToWin |-> 1, loseThreshold |-> SmallLoseThreshold, maxHelpers |-> m] :
        m \in {1, SmallMaxHelpers} }

InitCycle ==
    /\ \E settings \in CycleSettings, seeds \in SeedLayouts :
           scene = create(settings, seeds)
    /\ now = 0
    /\ lastOp = "create"
    /\ firstReached = "none"

NextCycle == Tick \/ Pick \/ TutorialAdvance

SpecCycle == InitCycle /\ [][NextCycle]_vars

(* ----- the session with movement keys and the player's body moving ----- *)

(* The horizontal key state of a frame.                                    *)
Moves == {-1, 0, 1}

MoveRnd(S) == { [r EXCEPT !.move = m] : r \in TickRnd(S), m \in Moves }

(* One frame with the keys sampled.                                        *)
MoveTick ==
    \E dtMs \in DtChoices :
        /\ now + dtMs <= MaxNow
        /\ \E rnd \in MoveRnd(scene) :
               scene' = update(clearObs(scene), now + dtMs, dtMs, rnd)
        /\ now' = now + dtMs
        /\ lastOp' = "tick"
        /\ Observe

(* The player's body: setDamping(true), setDrag(0.92), setMaxVelocity(320). *)
(* One step of PhysicsDt ms: the velocity gains acceleration * delta, or    *)
(* without acceleration is damped by 0.92 ^ delta (0.959 for half a        *)
(* second); it is clamped to the maximum and moves the sprite.             *)
PhysicsDt == 500
playerMaxVelocity == 320
DampPermille == 959

bodyVelocity(vx, ax) ==
    Clamp(IF ax # 0 THEN vx + (ax * PhysicsDt) \div 1000 ELSE (vx * DampPermille) \div 1000,
          -(playerMaxVelocity * Milli), playerMaxVelocity * Milli)

PlayerPhysics ==
    /\ LET v == bodyVelocity(scene.player.vx, scene.player.ax)
           x == scene.player.x + (v * PhysicsDt) \div 1000
       IN  /\ v # 0
           /\ InSample(x)
           /\ scene' = [clearObs(scene) EXCEPT !.player.vx = v, !.player.x = x]
    /\ lastOp' = "physics"
    /\ Observe
    /\ UNCHANGED now

NextMove == MoveTick \/ PlayerPhysics \/ Pick \/ TutorialAdvance

SpecMove == InitCycle /\ [][NextMove]_vars

(* ----- the session with frames that keep coming ----- *)

LiveSettings ==
    [neededToWin |-> SmallNeededToWin, loseThreshold |-> SmallLoseThreshold, maxHelpers |-> 1]

InitLive ==
    /\ \E seeds \in SeedLayouts : scene = create(LiveSettings, seeds)
    /\ now = 0
    /\ lastOp = "create"
    /\ firstReached = "none"

(* The longest duration startInjecting can set.                            *)
maxInjectDuration == baseInjectDuration + 900

(* One frame.  The game loop never stops calling update: the bound MaxNow  *)
(* on the clock is lifted while an injection younger than the longest      *)
(* duration is in progress, so that the frames an injection needs exist.   *)
LiveTick ==
    \E dtMs \in DtChoices :
        /\ \/ now + dtMs <= MaxNow
           \/ scene.injecting /\ now - scene.injectStartTime < maxInjectDuration
        /\ \E rnd \in TickRnd(scene) :
               scene' = update(clearObs(scene), now + dtMs, dtMs, rnd)
        /\ now' = now + dtMs
        /\ lastOp' = "tick"
        /\ Observe

NextLive == LiveTick \/ ReproFire \/ Pick \/ TutorialAdvance

(* The clock's part of LiveTick: update is total, so a frame is enabled    *)
(* exactly when its clock guard holds, and only a frame advances now.      *)
Frame ==
    \E dtMs \in DtChoices :
        /\ \/ now + dtMs <= MaxNow
           \/ scene.injecting /\ now - scene.injectStartTime < maxInjectDuration
        /\ now' = now + dtMs

(* requestAnimationFrame keeps scheduling frames: weak fairness of the     *)
(* frame, with its positive time deltas.                                   *)
SpecLive == InitLive /\ [][NextLive]_vars /\ WF_now(Frame)

(* ----- the session with pointer presses on the tutorial overlay ----- *)

(* The two listeners one press on the overlay reaches: the overlay's       *)
(* "pointerdown" (_tutorialAdvance, line 606) and the scene input's        *)
(* "pointerdown" (lines 124-127), in either order of dispatch.             *)
HandlerOrders == {"overlayFirst", "sceneFirst"}

pressOnOverlay(S, x, timeNow, order) ==
    IF order = "overlayFirst"
    THEN pointerdown(tutorialAdvance(S), x, timeNow)
    ELSE tutorialAdvance(pointerdown(S, x, timeNow))

(* A pointer press at x while the overlay, which covers the whole canvas,  *)
(* exists.  lastOp observes the order of dispatch.                         *)
TutorialPress ==
    /\ scene.tutorialActive
    /\ \E x \in PickXs, order \in HandlerOrders :
          /\ scene' = pressOnOverlay(clearObs(scene), x, now, order)
          /\ lastOp' = order
    /\ Observe
    /\ UNCHANGED now

NextTutorial == TutorialPress \/ TutorialAdvance \/ Tick \/ Pick

SpecTutorial == Init /\ [][NextTutorial]_vars

(* ----- constrainToDish in double precision, at the ends of the diameter ----- *)

(* Coordinates are IEEE doubles.  Near the rim a sprite on the horizontal  *)
(* diameter is [side, off, vx]: side 1 (right) or -1 (left), off the       *)
(* distance from the center minus maxR = dishRadius * 0.93 (line 443) in   *)
(* units of 2^-45 px, the spacing of the doubles between 128 and 256 that  *)
(* maxR = 220.96800000000002 lies in, and vx the velocity in thousandths.  *)
(* center.x = 480 is a multiple of 8 units; maxRLowBits is maxR modulo 8   *)
(* units.  x lies between 512 and 1024 on the right (spacing 4 units) and  *)
(* between 256 and 512 on the left (spacing 2 units).                      *)
maxRLowBits == 6
rightSpacing == 4
leftSpacing == 2

(* Round v to the nearest multiple of g, ties to the even multiple.        *)
roundEven(v, g) ==
    LET q == v \div g
        r == v % g
    IN  IF 2 * r < g THEN q * g
        ELSE IF 2 * r > g THEN (q + 1) * g
        ELSE IF q % 2 = 0 THEN q * g ELSE (q + 1) * g

(* sprite.x = this.center.x + to.x (line 447) for to.x of length maxR + k, *)
(* read back as the offset of the stored x: the sum is rounded to the      *)
(* spacing of the doubles around x.                                        *)
sumAtRim(side, k) ==
    IF side = 1
    THEN roundEven(maxRLowBits + k, rightSpacing) - maxRLowBits
    ELSE -roundEven(-(maxRLowBits + k), leftSpacing) - maxRLowBits

(* The offsets a stored x can have.                                        *)
Representable(side, off) == sumAtRim(side, off) = off

(* to.setLength(maxR) is normalize().scale(maxR): t * (1 / sqrt(t * t))    *)
(* times maxR leaves the length at maxR or one unit below, by the low      *)
(* bits of t.                                                              *)
SetLengthRoundings == {0, -1}

(* Mutant of constrainToDish: the factor 0.65 forgotten.                   *)
constrainToDishRim_noDamping(s, k) ==
    IF s.off > 0
    THEN [side |-> s.side, off |-> sumAtRim(s.side, k), vx |-> -s.vx]
    ELSE s

(* constrainToDish(sprite), lines 440-457; k is the rounding of setLength. *)
(* to.length() is sqrt(t * t) = |t| exactly, x - center.x is exact, and    *)
(* on the diameter the reflection v - 2 (v . n) n is -v.                   *)
constrainToDishRim(s, k) ==
    IF s.off > 0
    THEN [side |-> s.side, off |-> sumAtRim(s.side, k), vx |-> -((s.vx * 65) \div 100)]
    ELSE s

(* The sampled offsets and velocities, and the number of applications      *)
(* followed.                                                               *)
RimSpan == 6
MaxApplied == 3
RimSpeeds == { -200000, 0, 100000, 320000 }

RimOffsets(side) == { p \in (-RimSpan)..RimSpan : Representable(side, p) }

RimSprites ==
    UNION { { [side |-> sd, off |-> o, vx |-> v] : o \in RimOffsets(sd), v \in RimSpeeds } :
              sd \in {1, -1} }

InitRim ==
    /\ \E s \in RimSprites : scene = [sprite |-> s, before |-> s, applied |-> 0]
    /\ now = 0
    /\ lastOp = "create"
    /\ firstReached = "none"

(* update, lines 201, 205, 212: constrainToDish applied to a sprite.       *)
ConstrainStep ==
    /\ scene.applied < MaxApplied
    /\ \E k \in SetLengthRoundings :
          scene' = [sprite |-> constrainToDishRim(scene.sprite, k),
                    before |-> scene.sprite,
                    applied |-> scene.applied + 1]
    /\ lastOp' = "constrain"
    /\ UNCHANGED <<now, firstReached>>

(* The body's step writes another position and velocity to the sprite.     *)
RimPhysics ==
    /\ \E s \in RimSprites :
          /\ s.side = scene.sprite.side
          /\ scene' = [sprite |-> s, before |-> s, applied |-> 0]
    /\ lastOp' = "physics"
    /\ UNCHANGED <<now, firstReached>>

NextRim == ConstrainStep \/ RimPhysics

SpecRim == InitRim /\ [][NextRim]_vars

(* ----- a session whose helpers leave the neighbourhood of the bacteria ----- *)

(* Seeds on the right half of the diameter only, so that a helper carried  *)
(* to the left rim has no bacterium within seekRange.                      *)
WanderLayout ==
    << <<1, 700>>, <<1, 730>>, <<1, 760>>, <<1, 790>>, <<1, 820>>,
       <<1, 850>>, <<1, 880>>, <<1, 910>>, <<1, 940>>, <<1, 999>> >>

WanderSettings ==
    [neededToWin |-> SmallNeededToWin, loseThreshold |-> SmallLoseThreshold, maxHelpers |-> 1]

InitWander ==
    /\ scene = create(WanderSettings, WanderLayout)
    /\ now = 0
    /\ lastOp = "create"
    /\ firstReached = "none"

(* World.postUpdate for the player and the helpers: a body's displacement  *)
(* is written to its sprite.                                               *)
WanderPhysics ==
    /\ \E d \in Displacements :
          \/ /\ InSample(moveTo(scene.player.x, d))
             /\ scene' = [clearObs(scene) EXCEPT !.player.x = moveTo(@, d)]
          \/ \E h \in 1..Len(scene.helpers) :
                /\ scene.helpers[h].active
                /\ InSample(moveTo(scene.helpers[h].x, d))
                /\ scene' = [clearObs(scene) EXCEPT !.helpers[h].x = moveTo(@, d)]
    /\ lastOp' = "physics"
    /\ Observe
    /\ UNCHANGED now

NextWander == Tick \/ WanderPhysics \/ Pick \/ TutorialAdvance

SpecWander == InitWander /\ [][NextWander]_vars

(* ----- the session over 96 s of frames, with fires of sampled draws ----- *)

(* A draw between the least and the greatest chance of a birth.            *)
MidDraw == 500

(* The draws of a fire whose attempts all draw the same value.             *)
RampRnd ==
    { [draw |-> [i \in 1..MaxAttempts |-> d], parentDraw |-> HighDraw, cosA |-> 1,
       r |-> ChildSpawnR, cosT |-> 1, rPermille |-> 500] : d \in {LowDraw, MidDraw, HighDraw} }

(* The population up to which fires are sampled (popRamp is at its         *)
(* maximum from 44 on).                                                    *)
MaxRampPop == 50

(* The reproEvent timer fires; fireDraw observes the draws of its attempts. *)
RampFire ==
    /\ countActive(scene.bacteria) <= MaxRampPop
    /\ \E rnd \in RampRnd :
           scene' = [reproCallback(clearObs(scene), rnd) EXCEPT !.fireDraw = rnd.draw]
    /\ lastOp' = "repro"
    /\ Observe
    /\ UNCHANGED now

(* A frame of RampDt ms.                                                   *)
RampDt == 16000
RampMaxNow == 96000

RampTick ==
    /\ now + RampDt <= RampMaxNow
    /\ \E rnd \in TickRnd(scene) :
           scene' = update(clearObs(scene), now + RampDt, RampDt, rnd)
    /\ now' = now + RampDt
    /\ lastOp' = "tick"
    /\ Observe

NextRamp == RampTick \/ RampFire \/ TutorialAdvance

SpecRamp == InitPop /\ [][NextRamp]_vars

(* ----- the session long enough for a striker's cooldown to expire ----- *)

(* Seeds with two bacteria within 34 px of where a helper appears: the     *)
(* pick at the center takes the seed 10.9 px left of it, and a helper      *)
(* spawned 30 px further left has the seeds at -21.9 px and -43.7 px at    *)
(* 19.1 px and 2.8 px.                                                     *)
StrikeLayout ==
    << <<-1, 50>>, <<-1, 100>>, <<-1, 200>>, <<1, 100>>, <<1, 400>>,
       <<1, 700>>, <<1, 950>>, <<-1, 400>>, <<-1, 700>>, <<-1, 999>> >>

StrikeNeededToWin == 4
StrikeMaxNow == 3000

StrikeSettings ==
    [neededToWin |-> StrikeNeededToWin, loseThreshold |-> SmallLoseThreshold, maxHelpers |-> 2]

InitStrike ==
    /\ scene = create(StrikeSettings, StrikeLayout)
    /\ now = 0
    /\ lastOp = "create"
    /\ firstReached = "none"

(* One frame, with the clock bounded by StrikeMaxNow.                      *)
StrikeTick ==
    \E dtMs \in DtChoices :
        /\ now + dtMs <= StrikeMaxNow
        /\ \E rnd \in TickRnd(scene) :
               scene' = update(clearObs(scene), now + dtMs, dtMs, rnd)
        /\ now' = now + dtMs
        /\ lastOp' = "tick"
        /\ Observe

NextStrike == StrikeTick \/ Pick \/ TutorialAdvance

SpecStrike == InitStrike /\ [][NextStrike]_vars

(* ----- the session with sprites displaced near the rim ----- *)

InitDish == Init /\ scene.neededToWin = 1

NextDish == Tick \/ Pick \/ RimPick \/ TutorialAdvance \/ PhysicsStep

SpecDish == InitDish /\ [][NextDish]_vars

-----------------------------------------------------------------------------
(* Properties of the session                                               *)

score == scene.score
alive == countActive(scene.bacteria)
InfectedSet(S) == { i \in 1..Len(S.bacteria) : S.bacteria[i].infected }
InjectionState(S) ==
    <<S.injecting, S.attachedTarget, S.injectStartTime, S.injectDuration>>
Flags(S) == [i \in 1..Len(S.bacteria) |-> <<S.bacteria[i].active, S.bacteria[i].infected>>]

(* C1: at most one injection is active at any time (at most one bacterium  *)
(* is marked as the injection's target), and a pick received while         *)
(* injecting leaves injecting, attachedTarget, injectStartTime,            *)
(* injectDuration and every infected flag as they were.                    *)
C1_SingleInjection ==
    /\ [](Cardinality(InfectedSet(scene)) <= 1)
    /\ [][(scene.injecting /\ lastOp' = "pick") =>
              /\ InjectionState(scene') = InjectionState(scene)
              /\ Flags(scene') = Flags(scene)]_vars

C1_Witness ==
    lastOp = "pick" /\ scene.injecting /\ scene.injectStartTime < now

(* C2: a handler changes score by exactly the number of bacteria it        *)
(* deactivated, one per lysis whoever called it, and only update (a tick)  *)
(* changes score at all.                                                   *)
Deactivated ==
    { i \in 1..Len(scene.bacteria) : scene.bacteria[i].active /\ ~scene'.bacteria[i].active }

C2_ScorePerLysis ==
    [][lastOp' # "reset" =>
          /\ scene'.score = scene.score + Cardinality(Deactivated)
          /\ Cardinality(Deactivated) = Len(scene'.lysisLog)
          /\ lastOp' # "tick" => scene'.score = scene.score]_vars

C2_Witness ==
    /\ \E k \in 1..Len(scene.lysisLog) : scene.lysisLog[k].h = 0
    /\ \E k \in 1..Len(scene.lysisLog) : scene.lysisLog[k].h > 0

(* C3: lysis is idempotent: on a null or inactive bacterium it changes     *)
(* nothing, so a second call right after the first changes nothing,        *)
(* whatever the draws of either call.                                      *)
SpawnRnd ==
    { [cosA |-> c, r |-> HelperSpawnR, killer |-> [i \in 1..2 |-> d]] :
        c \in CosChoices, d \in Draws }
SecondRnd ==
    { [cosA |-> -1, r |-> HelperSpawnR, killer |-> <<HighDraw, LowDraw>>] }

C3_LysisIdempotent ==
    \A b \in 0..Len(scene.bacteria) :
        /\ (b = NULL \/ ~scene.bacteria[b].active) =>
               \A r \in SecondRnd : lysis(scene, b, r, 0) = scene
        /\ \A r1 \in SpawnRnd, r2 \in SecondRnd :
               lysis(lysis(scene, b, r1, 0), b, r2, 0) = lysis(scene, b, r1, 0)

C3_Witness ==
    /\ Len(scene.lysisLog) > 0
    /\ ~scene.bacteria[scene.lysisLog[1].b].active
    /\ countActive(scene.helpers) < scene.maxHelpers

(* C4 as claimed: the session is a win exactly when score reached          *)
(* neededToWin before the active count reached loseThreshold, a loss       *)
(* exactly when the count got there first.                                 *)
C4_Original_FirstReachedDecides ==
    scene.gameOver =>
        /\ scene.won = "win" <=> firstReached = "score"
        /\ scene.won = "loss" <=> firstReached = "count"

(* C4 amended: the thresholds are evaluated at the end of a tick only,     *)
(* score first.  The session is a win exactly when a tick ends with        *)
(* score >= neededToWin, whether or not a reproduction fire had taken the  *)
(* count to loseThreshold before; it is a loss exactly when a tick ends    *)
(* with score < neededToWin and count >= loseThreshold; a tick that ends   *)
(* with neither leaves the session running.                                *)
C4_EvaluatedAtTickEnd ==
    /\ scene.gameOver =>
           /\ scene.won \in {"win", "loss"}
           /\ scene.won = "win" <=> scene.score >= scene.neededToWin
           /\ scene.won = "loss" =>
                  alive >= scene.loseThreshold /\ firstReached = "count"
    /\ (~scene.gameOver /\ lastOp = "tick" /\ ~scene.tutorialActive) =>
           /\ scene.score < scene.neededToWin
           /\ alive < scene.loseThreshold
    /\ ~scene.gameOver => scene.won = "none"

C4_Witness ==
    scene.won = "win" /\ firstReached = "count"

(* C5: once gameOver is true, every tick, reproduction fire and pick       *)
(* leaves score, elapsedSeconds, the active bacteria, the helpers, the     *)
(* infected flags and the injection state unchanged, until a reset.        *)
C5_FrozenAfterGameOver ==
    [][(scene.gameOver /\ lastOp' # "reset") =>
          /\ scene'.gameOver
          /\ scene'.score = scene.score
          /\ scene'.elapsedSeconds = scene.elapsedSeconds
          /\ Flags(scene') = Flags(scene)
          /\ scene'.helpers = scene.helpers
          /\ InjectionState(scene') = InjectionState(scene)]_vars

C5_Witness ==
    scene.gameOver /\ lastOp = "pick" /\ now > 0

(* C6: at the end of every simulated tick every active entity (the        *)
(* player, every active helper, those created by a lysis of that tick      *)
(* included, and every active bacterium) is within 0.93 * dishRadius of    *)
(* the dish center.                                                        *)
InDish(x) == Dist(x, centerX) <= maxR

C6_AllInsideAfterTick ==
    scene.ticked =>
        /\ InDish(scene.player.x)
        /\ \A h \in ActiveSet(scene.helpers) : InDish(scene.helpers[h].x)
        /\ \A b \in ActiveSet(scene.bacteria) : InDish(scene.bacteria[b].x)

(* What does hold of the tick: the entities that existed when the frame    *)
(* began are inside; only helpers created during the frame can be outside. *)
CreatedThisTick ==
    IF scene.lysisLog = <<>> THEN {}
    ELSE { h \in 1..Len(scene.helpers) : h > scene.lysisLog[1].helpersBefore }

C6_InsideExceptCreated ==
    scene.ticked =>
        /\ InDish(scene.player.x)
        /\ \A h \in ActiveSet(scene.helpers) \ CreatedThisTick : InDish(scene.helpers[h].x)
        /\ \A b \in ActiveSet(scene.bacteria) : InDish(scene.bacteria[b].x)

(* C7: the active helpers never exceed maxHelpers, and a lysis creates     *)
(* exactly min(2, maxHelpers - helpers before) of them.                    *)
C7_HelperCap ==
    /\ countActive(scene.helpers) <= scene.maxHelpers
    /\ \A k \in 1..Len(scene.lysisLog) :
           scene.lysisLog[k].helpersAfter - scene.lysisLog[k].helpersBefore
               = Min(2, scene.maxHelpers - scene.lysisLog[k].helpersBefore)

C7_Witness ==
    \E k \in 1..Len(scene.lysisLog) :
        /\ scene.lysisLog[k].helpersBefore = scene.maxHelpers
        /\ scene.lysisLog[k].helpersAfter = scene.maxHelpers

(* C8: 110 is a hard cap: whatever the configuration, the attempts and    *)
(* the draws, reproduction fires never leave more than 110 active          *)
(* bacteria.                                                               *)
C8_HardCap ==
    alive <= hardCap

(* C9: a reproduction fire that starts with 110 or more active bacteria    *)
(* creates no bacterium.                                                   *)
C9_NoBirthAtCap ==
    [][(lastOp' = "repro" /\ alive >= hardCap) =>
          scene'.bacteria = scene.bacteria]_vars

C9_Witness ==
    lastOp = "repro" /\ scene.fireN >= hardCap /\ scene.elapsedSeconds > 0

(* C10: when the bacterium under injection has become inactive, the next   *)
(* tick clears the injection (injecting false, target released) without a  *)
(* lysis by the player: the score and the helpers change only by the       *)
(* strikes of helpers in that tick.                                        *)
RECURSIVE helpersCreated(_, _)
helpersCreated(log, k) ==
    IF k = 0 THEN 0
    ELSE (log[k].helpersAfter - log[k].helpersBefore) + helpersCreated(log, k - 1)

C10_ForcedAbort ==
    [][(/\ scene.injecting
        /\ scene.attachedTarget # NULL
        /\ ~scene.bacteria[scene.attachedTarget].active
        /\ lastOp' = "tick") =>
          /\ ~scene'.injecting
          /\ scene'.attachedTarget = NULL
          /\ scene'.injectionEnd = "aborted"
          /\ \A k \in 1..Len(scene'.lysisLog) : scene'.lysisLog[k].h # 0
          /\ scene'.score = scene.score + Len(scene'.lysisLog)
          /\ Len(scene'.helpers) = Len(scene.helpers)
                 + helpersCreated(scene'.lysisLog, Len(scene'.lysisLog))]_vars

C10_Witness ==
    lastOp = "tick" /\ scene.injectionEnd = "aborted" /\ ~scene.injecting

(* In the session itself an injection is never aborted: helpers skip the   *)
(* infected bacterium and only lysis disables a body.                      *)
NeverAbortedInSession ==
    scene.injectionEnd # "aborted"

(* The active bacterium nearest to x, the first in iteration order among  *)
(* equally near ones; NULL when none is active.                            *)
NearestActive(S, x) ==
    LET act == ActiveSet(S.bacteria)
    IN  IF act = {} THEN NULL
        ELSE CHOOSE i \in act :
                 \A j \in act :
                     \/ Dist(x, S.bacteria[i].x) < Dist(x, S.bacteria[j].x)
                     \/ Dist(x, S.bacteria[i].x) = Dist(x, S.bacteria[j].x) /\ i <= j

(* A handler left the scene as it was (the observation fields aside).      *)
NoTransition == clearObs(scene') = clearObs(scene)

(* C11 as stated: a pick whose point is farther than attachRange from the  *)
(* player, made while an active bacterium exists, causes no transition.    *)
C11_Original_FarPointRejected ==
    [][(/\ lastOp' = "pick"
        /\ Dist(scene'.pickX, scene.player.x) > attachRange
        /\ alive >= 1) => NoTransition]_vars

(* C11 amended: a pick whose nearest active bacterium is farther than      *)
(* attachRange from the player causes no transition: no injection starts   *)
(* and no bacterium becomes infected.  The distance of the pick point      *)
(* itself from the player does not matter.                                 *)
C11_FarTargetRejected ==
    [][(/\ lastOp' = "pick"
        /\ NearestActive(scene, scene'.pickX) # NULL
        /\ Dist(scene.player.x, scene.bacteria[NearestActive(scene, scene'.pickX)].x)
               > attachRange) => NoTransition]_vars

C11_Witness ==
    /\ lastOp = "pick"
    /\ ~scene.injecting /\ ~scene.gameOver /\ ~scene.tutorialActive
    /\ NearestActive(scene, scene.pickX) # NULL
    /\ Dist(scene.player.x, scene.bacteria[NearestActive(scene, scene.pickX)].x)
           = attachRange + 1

(* C12: the duration computed when an injection starts with n active      *)
(* bacteria is baseInjectDuration + 18 * n below n = 50 and                *)
(* baseInjectDuration + 900 from n = 50 on: non-decreasing in n, at least  *)
(* baseInjectDuration, at most baseInjectDuration + 900.                   *)
DurationAt(n) ==
    IF n >= 50 THEN baseInjectDuration + 900 ELSE baseInjectDuration + 18 * n

C12_InjectDuration ==
    /\ [](\A n \in 0..(2 * MaxGrowPop) :
             /\ injectDurationFor(n) = DurationAt(n)
             /\ injectDurationFor(n) <= injectDurationFor(n + 1)
             /\ injectDurationFor(n) >= baseInjectDuration
             /\ injectDurationFor(n) <= baseInjectDuration + 900)
    /\ [][(lastOp' = "pick" /\ ~scene.injecting /\ scene'.injecting) =>
              scene'.injectDuration = DurationAt(alive)]_vars

C12_Witness ==
    /\ lastOp = "pick"
    /\ scene.injecting
    /\ scene.injectStartTime = now
    /\ alive > 50
    /\ scene.injectDuration = baseInjectDuration + 900

(* C13: with neededToWin = 1, 10 seeded bacteria and no helpers, a tick    *)
(* in which the progress of the injection reaches 1 ends with score 1,     *)
(* the target inactive, the injection cleared, min(2, maxHelpers) helpers  *)
(* and the session won; a tick in which it does not leaves the injection   *)
(* running and the session open.                                           *)
ProgressComplete ==
    now' - scene.injectStartTime >= scene.injectDuration

C13_OneCycleWins ==
    [][(/\ lastOp' = "tick"
        /\ scene.injecting
        /\ scene.neededToWin = 1
        /\ alive = seedCount
        /\ countActive(scene.helpers) = 0) =>
          IF ProgressComplete
          THEN /\ scene'.score = 1
               /\ ~scene'.bacteria[scene.attachedTarget].active
               /\ ~scene'.bacteria[scene.attachedTarget].infected
               /\ ~scene'.injecting
               /\ scene'.attachedTarget = NULL
               /\ countActive(scene'.helpers) = Min(2, scene.maxHelpers)
               /\ scene'.gameOver
               /\ scene'.won = "win"
          ELSE /\ scene'.score = 0
               /\ scene'.injecting
               /\ scene'.attachedTarget = scene.attachedTarget
               /\ ~scene'.gameOver]_vars

C13_Witness ==
    /\ lastOp = "tick"
    /\ scene.injectionEnd = "completed"
    /\ scene.neededToWin = 1
    /\ scene.maxHelpers >= 2
    /\ scene.score = 1
    /\ countActive(scene.helpers) = 2
    /\ scene.won = "win"

(* C14: a tick that ends with score >= neededToWin and the active count   *)
(* >= loseThreshold ends the session as a win; a tick declares a loss only *)
(* when it ends with score < neededToWin and the count >= loseThreshold.   *)
C14_WinBeatsLoss ==
    scene.ticked =>
        /\ (score >= scene.neededToWin /\ alive >= scene.loseThreshold) =>
               scene.gameOver /\ scene.won = "win"
        /\ scene.won = "loss" =>
               score < scene.neededToWin /\ alive >= scene.loseThreshold

C14_Witness ==
    /\ scene.ticked
    /\ score >= scene.neededToWin
    /\ alive >= scene.loseThreshold
    /\ scene.won = "win"
    /\ scene.endGameCalls = 1

(* C15: a session that ends while an injection is in progress (a loss,    *)
(* or a win by a helper's strike) cancels the injection without lysis      *)
(* credit: afterwards injecting is false, the target is released, still    *)
(* active and no longer infected, and the score has grown only by the      *)
(* strikes of helpers.                                                     *)
C15_EndCancelsInjection ==
    [][(/\ scene.injecting
        /\ ~scene.gameOver
        /\ scene'.gameOver
        /\ now' - scene.injectStartTime < scene.injectDuration) =>
          /\ ~scene'.injecting
          /\ scene'.attachedTarget = NULL
          /\ scene'.bacteria[scene.attachedTarget].active
          /\ ~scene'.bacteria[scene.attachedTarget].infected
          /\ \A k \in 1..Len(scene'.lysisLog) : scene'.lysisLog[k].h > 0
          /\ scene'.score = scene.score + Len(scene'.lysisLog)]_vars

C15_Witness ==
    /\ scene.injectionEnd = "cancelled"
    /\ scene.won = "win"
    /\ InfectedSet(scene) = {}

(* The same cancellation reached by a loss.                                *)
C15_WitnessLoss ==
    /\ scene.injectionEnd = "cancelled"
    /\ scene.won = "loss"
    /\ InfectedSet(scene) = {}

(* C16: while the tutorial is active the simulation is suspended: ticks,   *)
(* reproduction fires and picks change nothing, so the state stays at      *)
(* score 0, elapsedSeconds 0, 10 active non-infected bacteria, no helper   *)
(* and no injection until the tutorial ends.                               *)
C16_TutorialSuspends ==
    /\ [](scene.tutorialActive =>
             /\ scene.score = 0
             /\ scene.elapsedSeconds = 0
             /\ Len(scene.bacteria) = seedCount
             /\ \A b \in 1..Len(scene.bacteria) :
                    scene.bacteria[b].active /\ ~scene.bacteria[b].infected
             /\ scene.helpers = <<>>
             /\ ~scene.injecting
             /\ scene.attachedTarget = NULL
             /\ ~scene.gameOver)
    /\ [][(scene.tutorialActive /\ lastOp' \in {"tick", "repro", "pick"}) =>
              scene' = scene]_vars

C16_Witness ==
    scene.tutorialActive /\ lastOp = "repro" /\ now > 0 /\ scene.tutorialStep > 0

StrikeCandidates(k) ==
    { i \in ActiveSet(scene.bacteria) :
        /\ ~scene.bacteria[i].infected
        /\ \A j \in 1..(k - 1) : scene'.lysisLog[j].b # i }

C18_StrikeGuard ==
    [][\A k \in 1..Len(scene'.lysisLog) :
          scene'.lysisLog[k].h > 0 =>
              LET h == scene'.lysisLog[k].h
                  b == scene'.lysisLog[k].b
              IN  /\ lastOp' = "tick"
                  /\ h <= Len(scene.helpers)
                  /\ scene.helpers[h].killer
                  /\ scene.helpers[h].cooldown - (now' - now) <= 0
                  /\ b \in StrikeCandidates(k)
                  /\ Dist(scene.helpers[h].x, scene.bacteria[b].x) < 34 * Milli
                  /\ \A i \in StrikeCandidates(k) :
                         Dist(scene.helpers[h].x, scene.bacteria[b].x)
                             <= Dist(scene.helpers[h].x, scene.bacteria[i].x)]_vars

(* A striker strikes again once its cooldown has run out: the only striker *)
(* lyses seed 2 in this tick, after seed 3 (which no pick can reach while   *)
(* seed 2 is active), next to a swarmer that never struck.                 *)
C18_Witness ==
    /\ lastOp = "tick"
    /\ ~scene.bacteria[3].active
    /\ Cardinality({ h \in 1..Len(scene.helpers) : scene.helpers[h].killer }) = 1
    /\ \E h \in 1..Len(scene.helpers) : ~scene.helpers[h].killer
    /\ \E k \in 1..Len(scene.lysisLog) :
           /\ scene.lysisLog[k].h > 0
           /\ scene.lysisLog[k].b = 2
           /\ scene.helpers[scene.lysisLog[k].h].killer
           /\ scene.helpers[scene.lysisLog[k].h].cooldown = strikeCooldown

(* C19: a reset after game over rebuilds the whole session: score 0, not   *)
(* over, elapsedSeconds 0, exactly 10 bacteria all active and non-infected,*)
(* no helper, no injection, the tutorial active at its first step; the     *)
(* state is the one create() builds, whatever the ended session was.       *)
C19_ResetRebuilds ==
    lastOp = "reset" =>
        /\ scene.score = 0
        /\ ~scene.gameOver
        /\ scene.elapsedSeconds = 0
        /\ Len(scene.bacteria) = 10
        /\ \A i \in 1..Len(scene.bacteria) :
               scene.bacteria[i].active /\ ~scene.bacteria[i].infected
        /\ scene.helpers = <<>>
        /\ ~scene.injecting
        /\ scene.attachedTarget = NULL
        /\ scene.tutorialActive
        /\ scene.tutorialStep = 0
        /\ \E seeds \in SeedLayouts : scene = create(settingsOf(scene), seeds)

C19_Witness ==
    /\ lastOp = "reset"
    /\ now > 0
    /\ scene.neededToWin = SmallNeededToWin
    /\ scene.score = 0

(* C20: a pick at x starts an injection exactly when no injection is in   *)
(* progress, the session is neither over nor in the tutorial, an active    *)
(* bacterium exists and the active bacterium nearest to x is at most       *)
(* attachRange from the player (equality accepted).  The injection is on   *)
(* that bacterium; any other pick changes nothing, even with another       *)
(* active bacterium within attachRange of the player.                      *)
PickAccepted(S, x) ==
    /\ ~S.injecting /\ ~S.gameOver /\ ~S.tutorialActive
    /\ NearestActive(S, x) # NULL
    /\ Dist(S.player.x, S.bacteria[NearestActive(S, x)].x) <= attachRange

C20_PickStartsInjection ==
    [][lastOp' = "pick" =>
          IF PickAccepted(scene, scene'.pickX)
          THEN LET t == NearestActive(scene, scene'.pickX)
               IN  /\ scene'.injecting
                   /\ scene'.attachedTarget = t
                   /\ scene'.bacteria[t].infected
                   /\ scene'.injectStartTime = now
                   /\ InfectedSet(scene') = InfectedSet(scene) \cup {t}
          ELSE NoTransition]_vars

(* An accepted pick at distance exactly attachRange, away from the player. *)
C20_Witness ==
    /\ lastOp = "pick"
    /\ scene.injecting
    /\ scene.injectStartTime = now
    /\ scene.attachedTarget = NearestActive([scene EXCEPT !.bacteria[scene.attachedTarget].infected = FALSE], scene.pickX)
    /\ Dist(scene.player.x, scene.bacteria[scene.attachedTarget].x) = attachRange
    /\ scene.pickX # scene.player.x

(* A pick rejected for range although another active bacterium is within   *)
(* attachRange of the player.                                              *)
C20_RejectedNearOther ==
    /\ lastOp = "pick"
    /\ ~scene.injecting /\ ~scene.gameOver /\ ~scene.tutorialActive
    /\ Dist(scene.player.x, scene.bacteria[NearestActive(scene, scene.pickX)].x) > attachRange
    /\ \E i \in ActiveSet(scene.bacteria) :
           Dist(scene.player.x, scene.bacteria[i].x) <= attachRange

(* A pick on a session that is over.                                       *)
C20_PickWhenOver ==
    lastOp = "pick" /\ scene.gameOver

(* C21: between events, an injection in progress has a target that is      *)
(* active and infected, and a bacterium is infected exactly when it is the *)
(* target of the injection in progress: none stays infected after the      *)
(* injection ends by completion, abort or game over.                       *)
C21_InfectedIffTarget ==
    /\ scene.injecting =>
           /\ scene.attachedTarget # NULL
           /\ scene.bacteria[scene.attachedTarget].active
           /\ scene.bacteria[scene.attachedTarget].infected
    /\ \A i \in 1..Len(scene.bacteria) :
           scene.bacteria[i].infected <=> (scene.injecting /\ scene.attachedTarget = i)

(* A second injection in progress after the first one completed.           *)
C21_Witness ==
    /\ scene.injecting
    /\ scene.score >= 1
    /\ \E i \in 1..Len(scene.bacteria) : ~scene.bacteria[i].active /\ ~scene.bacteria[i].infected
    /\ InfectedSet(scene) = {scene.attachedTarget}

(* An injection cancelled by a lost session, its target still active.      *)
C21_WitnessCancelled ==
    /\ scene.injectionEnd = "cancelled"
    /\ scene.won = "loss"
    /\ ~scene.injecting
    /\ \A i \in 1..Len(scene.bacteria) : ~scene.bacteria[i].infected

(* C22: a helper's scan never returns an infected bacterium, a helper      *)
(* never lyses one, and a bacterium under injection is deactivated only by *)
(* the player's own completed injection.                                   *)
C22_TargetOnlyByPlayer ==
    [][/\ \A h \in 1..Len(scene.helpers) :
              helperScan(scene, h).target # NULL =>
                  ~scene.bacteria[helperScan(scene, h).target].infected
       /\ \A k \in 1..Len(scene'.lysisLog) :
              scene'.lysisLog[k].h > 0 => ~scene.bacteria[scene'.lysisLog[k].b].infected
       /\ (/\ scene.injecting
           /\ scene.attachedTarget # NULL
           /\ scene.bacteria[scene.attachedTarget].active
           /\ ~scene'.bacteria[scene.attachedTarget].active)
              => /\ scene'.injectionEnd = "completed"
                 /\ \E k \in 1..Len(scene'.lysisLog) :
                        /\ scene'.lysisLog[k].h = 0
                        /\ scene'.lysisLog[k].b = scene.attachedTarget]_vars

(* After a tick of a second injection in progress (the helpers come from   *)
(* the first lysis, the only one so far), a striker off cooldown has the   *)
(* injection target as its nearest active bacterium, within strike range,  *)
(* and the target is still active.                                         *)
C22_Witness ==
    /\ lastOp = "tick"
    /\ scene.ticked
    /\ scene.injecting
    /\ scene.injectStartTime < now
    /\ scene.score = 1
    /\ scene.bacteria[scene.attachedTarget].active
    /\ \E h \in 1..Len(scene.helpers) :
           /\ scene.helpers[h].killer
           /\ scene.helpers[h].cooldown = 0
           /\ NearestActive(scene, scene.helpers[h].x) = scene.attachedTarget
           /\ Dist(scene.helpers[h].x, scene.bacteria[scene.attachedTarget].x) < strikeRange

(* C23: while an injection is in progress a frame leaves the player's      *)
(* acceleration and heading as they were, whatever the keys, and unless    *)
(* the injection is aborted the frame ends with the player's velocity zero *)
(* and the player on the target's position of that frame.                  *)
C23_PinnedWhileInjecting ==
    [][(lastOp' = "tick" /\ scene'.ticked /\ scene.injecting) =>
          /\ scene'.player.ax = scene.player.ax
          /\ scene'.player.rotation = scene.player.rotation
          /\ scene'.injectionEnd # "aborted" =>
                 /\ scene'.player.vx = 0
                 /\ scene'.player.x = scene'.bacteria[scene.attachedTarget].x]_vars

(* A frame of an injection in progress, entered with the thrust still on   *)
(* and the heading turned left.                                            *)
C23_Witness ==
    /\ lastOp = "tick"
    /\ scene.ticked
    /\ scene.injecting
    /\ scene.injectStartTime < now
    /\ scene.player.ax # 0
    /\ scene.player.rotation # 0
    /\ scene.player.vx = 0
    /\ scene.player.x = scene.bacteria[scene.attachedTarget].x

(* C24: a strike leaves the striker's cooldown at 1.5 s; a striker that    *)
(* struck before strikes again only when the frame deltas accumulated      *)
(* since that strike reach 1.5 s; with a frame delta below 1.5 s it does   *)
(* not strike in the frame after a frame in which it struck; and a helper  *)
(* lyses at most one bacterium per frame.                                  *)
StruckBy(log, h) == { k \in 1..Len(log) : log[k].h = h }

C24_CooldownBlocks ==
    [][\A h \in 1..Len(scene'.helpers) :
          /\ Cardinality(StruckBy(scene'.lysisLog, h)) <= 1
          /\ StruckBy(scene'.lysisLog, h) # {} =>
                 /\ lastOp' = "tick"
                 /\ h <= Len(scene.helpers)
                 /\ scene'.helpers[h].cooldown = 1500
                 /\ \/ scene.helpers[h].sinceStrike = -1
                    \/ scene.helpers[h].sinceStrike + (now' - now) >= 1500
                 /\ (lastOp = "tick" /\ now' - now < 1500) => StruckBy(scene.lysisLog, h) = {}]_vars

(* A striker's second strike, with exactly 1.5 s of frames accumulated     *)
(* since its first: it lyses seed 2 after seed 3, which no pick can reach  *)
(* while seed 2 is active, and no other helper ever struck.                *)
C24_Witness ==
    /\ lastOp = "tick"
    /\ now = 3000
    /\ ~scene.bacteria[2].active
    /\ ~scene.bacteria[3].active
    /\ \E h \in 1..Len(scene.helpers) :
           /\ \E k \in StruckBy(scene.lysisLog, h) : scene.lysisLog[k].b = 2
           /\ scene.helpers[h].sinceStrike = 0
           /\ \A g \in 1..Len(scene.helpers) : g # h => scene.helpers[g].sinceStrike = -1

(* C25: a fire at elapsed time e (ms) with n active bacteria makes         *)
(* 2 + floor(clamp(e / 40 s, 0, 2.2) + clamp(n / 22, 0, 2)) attempts, in   *)
(* 2..6, each a birth when its draw is below                               *)
(* clamp(0.30 + 0.16 * timeRamp + 0.14 * popRamp, 0.30, 0.92); attempts    *)
(* and chance do not decrease when e or n grows.  The ramps are in units   *)
(* of 1 / 440000, the chance in units of 1 / 44000000.                     *)
TimeRampAt(e) == IF e >= 88000 THEN 968000 ELSE 11 * e
PopRampAt(n) == IF n >= 44 THEN 880000 ELSE 20000 * n
AttemptsAt(e, n) == 2 + ((TimeRampAt(e) + PopRampAt(n)) \div 440000)
ChanceAt(e, n) ==
    LET raw == 13200000 + 16 * TimeRampAt(e) + 14 * PopRampAt(n)
    IN  IF raw < 13200000 THEN 13200000 ELSE IF raw > 40480000 THEN 40480000 ELSE raw

ElapsedSteps == {1, 1000, 40000}
MaxRampN == 60

C25_ReproRamp ==
    [][(lastOp' = "repro" /\ scene'.fireN >= 0 /\ scene'.fireDraw # <<>>) =>
          LET e == scene.elapsedSeconds
              n == scene'.fireN
              births == { i \in 1..AttemptsAt(e, n) : scene'.fireDraw[i] * 44000 < ChanceAt(e, n) }
          IN  /\ reproAttempts(scene, n) = AttemptsAt(e, n)
              /\ AttemptsAt(e, n) \in 2..6
              /\ reproChance(scene, n) = ChanceAt(e, n)
              /\ ChanceAt(e, n) >= 13200000 /\ ChanceAt(e, n) <= 40480000
              /\ n < 110 => Len(scene'.bacteria) = Len(scene.bacteria) + Cardinality(births)
              /\ \A d \in ElapsedSteps :
                     /\ reproAttempts([scene EXCEPT !.elapsedSeconds = e + d], n)
                            >= reproAttempts(scene, n)
                     /\ reproChance([scene EXCEPT !.elapsedSeconds = e + d], n)
                            >= reproChance(scene, n)
              /\ \A m \in 0..MaxRampN :
                     /\ reproAttempts(scene, m + 1) >= reproAttempts(scene, m)
                     /\ reproChance(scene, m + 1) >= reproChance(scene, m)
                     /\ reproAttempts(scene, m) \in 2..6]_vars

(* A fire whose six attempts all draw 0.5 and all give a birth, and which  *)
(* would have given none at the start of the session.                      *)
C25_Witness ==
    /\ lastOp = "repro"
    /\ scene.fireN >= 0
    /\ scene.fireDraw # <<>>
    /\ scene.fireDraw[1] = MidDraw
    /\ Len(scene.bacteria) = scene.fireN + 6
    /\ MidDraw * 44000 >= ChanceAt(0, 10)

(* C26: a reproduction fire only appends bacteria: at most the attempts    *)
(* computed from the count sampled at its start (at most 6), each active   *)
(* and non-infected; the bacteria that existed, the score, the helpers,    *)
(* the injection and gameOver stay as they were.  A frame never increases  *)
(* the number of active bacteria.                                          *)
C26_FireOnlyAdds ==
    [][/\ lastOp' = "repro" =>
              LET old == Len(scene.bacteria)
                  new == Len(scene'.bacteria)
              IN  /\ new >= old
                  /\ new - old <= reproAttempts(scene, countActive(scene.bacteria))
                  /\ new - old <= 6
                  /\ \A i \in 1..old : scene'.bacteria[i] = scene.bacteria[i]
                  /\ \A i \in (old + 1)..new :
                         scene'.bacteria[i].active /\ ~scene'.bacteria[i].infected
                  /\ scene'.score = scene.score
                  /\ scene'.helpers = scene.helpers
                  /\ InjectionState(scene') = InjectionState(scene)
                  /\ scene'.gameOver = scene.gameOver
                  /\ scene'.player = scene.player
       /\ lastOp' = "tick" =>
              /\ Len(scene'.bacteria) = Len(scene.bacteria)
              /\ countActive(scene'.bacteria) <= countActive(scene.bacteria)]_vars

(* A fire that gave two births after a lysis, during an injection, with    *)
(* helpers in the dish.                                                    *)
C26_Witness ==
    /\ lastOp = "repro"
    /\ scene.fireN >= 0
    /\ Len(scene.bacteria) = 12
    /\ scene.score >= 1
    /\ scene.injecting
    /\ scene.helpers # <<>>

(* C27: every bacterium is created active, non-infected and at most        *)
(* 0.92 * dishRadius from the center: the 10 seeds, the children of a fire *)
(* (their position clamped), and the bacterium of the fallback taken when  *)
(* no bacterium is active.                                                 *)
CreatedOk(b) == b.active /\ ~b.infected /\ Abs(b.x - centerX) <= (dishRadius * 92) \div 100

(* The scene with every bacterium lysed, and the draws of the fallback.    *)
AllLysed(S) ==
    [S EXCEPT !.bacteria = [i \in 1..Len(S.bacteria) |-> [S.bacteria[i] EXCEPT !.active = FALSE]]]

FallbackRnd ==
    { [draw |-> [i \in 1..MaxAttempts |-> LowDraw], parentDraw |-> HighDraw, cosA |-> 1,
       r |-> ChildSpawnR, cosT |-> c, rPermille |-> p] : c \in CosChoices, p \in {0, 500, 1000} }

C27_CreatedInside ==
    /\ Len(scene.bacteria) = 10
    /\ \A i \in 1..Len(scene.bacteria) : CreatedOk(scene.bacteria[i])
    /\ [][/\ \A i \in (Len(scene.bacteria) + 1)..Len(scene'.bacteria) :
                 CreatedOk(scene'.bacteria[i])
          /\ \A rnd \in FallbackRnd :
                 LET S1 == spawnBacteriumNearExisting(AllLysed(scene), rnd)
                 IN  /\ Len(S1.bacteria) = Len(scene.bacteria) + 1
                     /\ CreatedOk(S1.bacteria[Len(S1.bacteria)])]_vars

(* A child whose position was clamped onto the spawn radius.               *)
C27_Witness ==
    /\ lastOp = "repro"
    /\ \E i \in 11..Len(scene.bacteria) :
           /\ scene.bacteria[i].x = centerX + (dishRadius * 92) \div 100
           /\ scene.bacteria[i].active
           /\ ~scene.bacteria[i].infected

(* C28: the nearest-bacterium search returns the first bacterium in        *)
(* iteration order among those at the least distance, among the active     *)
(* bacteria for tryAttachAt and among the active non-infected ones for     *)
(* helperBrain, and no target when there is no candidate.  The search is   *)
(* probed at the center, at the player, at every helper and at the         *)
(* midpoints of the first bacteria, where two of them tie.                 *)
NearestHealthy(S, x) ==
    LET cand == { i \in ActiveSet(S.bacteria) : ~S.bacteria[i].infected }
    IN  IF cand = {} THEN NULL
        ELSE CHOOSE i \in cand :
                 \A j \in cand :
                     \/ Dist(x, S.bacteria[i].x) < Dist(x, S.bacteria[j].x)
                     \/ Dist(x, S.bacteria[i].x) = Dist(x, S.bacteria[j].x) /\ i <= j

ProbePairs == 5

ProbeXs(S) ==
    {centerX, S.player.x}
        \cup { S.helpers[h].x : h \in 1..Len(S.helpers) }
        \cup { (S.bacteria[i].x + S.bacteria[j].x) \div 2 :
                 i, j \in 1..Min(ProbePairs, Len(S.bacteria)) }

C28_FirstNearest ==
    /\ \A x \in ProbeXs(scene) :
           /\ scanNearest(scene.bacteria, x, 1, NULL, InfinityD, FALSE).target
                  = NearestActive(scene, x)
           /\ scanNearest(scene.bacteria, x, 1, NULL, helperBestD, TRUE).target
                  = NearestHealthy(scene, x)
           /\ scanNearest(AllLysed(scene).bacteria, x, 1, NULL, InfinityD, FALSE).target = NULL
           /\ scanNearest(AllLysed(scene).bacteria, x, 1, NULL, helperBestD, TRUE).target = NULL
    /\ \A h \in 1..Len(scene.helpers) :
           helperScan(scene, h).target = NearestHealthy(scene, scene.helpers[h].x)

(* A pick at the center that found seeds 2 and 4 at the same distance and  *)
(* took seed 2, the first in iteration order.                              *)
C28_Witness ==
    /\ lastOp = "pick"
    /\ scene.injecting
    /\ scene.injectStartTime = now
    /\ scene.attachedTarget = 2
    /\ ~scene.bacteria[1].active
    /\ scene.bacteria[4].active
    /\ Dist(centerX, scene.bacteria[2].x) = Dist(centerX, scene.bacteria[4].x)
    /\ scene.helpers # <<>>


(* The movement mode of helper h in a frame that starts in S, by the       *)
(* distance to the nearest active, uninfected bacterium.                   *)
ModeOf(S, h) ==
    LET t == NearestHealthy(S, S.helpers[h].x)
    IN  IF t = NULL \/ Dist(S.helpers[h].x, S.bacteria[t].x) >= 320 * Milli THEN "wander"
        ELSE IF Dist(S.helpers[h].x, S.bacteria[t].x) < 70 * Milli THEN "orbit"
        ELSE "seek"

C29_WitnessOrbit ==
    /\ lastOp = "tick"
    /\ scene.ticked
    /\ \E h \in 1..Len(scene.helpers) :
           /\ scene.helpers[h].accMag = 160
           /\ scene.helpers[h].accDir = HalfPiMilli
           /\ scene.helpers[h].wanderAngle = InitialWander

(* A helper wandering to the left of every bacterium.                      *)
C29_WitnessWander ==
    /\ lastOp = "tick"
    /\ scene.ticked
    /\ \E h \in 1..Len(scene.helpers) :
           /\ scene.helpers[h].accMag = 160
           /\ scene.helpers[h].accDir = scene.helpers[h].wanderAngle
           /\ scene.helpers[h].wanderAngle < InitialWander


(* C30: within a session a helper's role (killer flag) is assigned once at *)
(* spawn and never changes, and no operation deactivates or removes a      *)
(* helper, so the number of active helpers never decreases across frames,  *)
(* reproduction fires, picks and the end of the game.                      *)
C30_HelpersPersist ==
    /\ [](\A h \in 1..Len(scene.helpers) : scene.helpers[h].active)
    /\ [][lastOp' # "reset" =>
             /\ Len(scene'.helpers) >= Len(scene.helpers)
             /\ countActive(scene'.helpers) >= countActive(scene.helpers)
             /\ \A h \in 1..Len(scene.helpers) :
                    /\ scene'.helpers[h].killer = scene.helpers[h].killer
                    /\ scene.helpers[h].active => scene'.helpers[h].active]_vars

(* The end of a game won at its second lysis: the helper of the first      *)
(* lysis is still active beside one of the other role.                     *)
C30_Witness ==
    /\ scene.gameOver
    /\ scene.endGameCalls = 1
    /\ scene.score >= 2
    /\ \A h \in 1..Len(scene.helpers) : scene.helpers[h].active
    /\ \E h, k \in 1..Len(scene.helpers) :
           scene.helpers[h].killer /\ ~scene.helpers[k].killer


(* The lyses of a frame's log made by the player's injection.              *)
PlayerLyses(log) == { i \in 1..Len(log) : log[i].h = 0 }

(* C31: the player's injection never lyses early: a player lysis happens   *)
(* only in a frame whose time t has t - injectStartTime >= injectDuration, *)
(* on the bacterium under injection, and injectDuration and                *)
(* injectStartTime, fixed at the start, do not change while the injection  *)
(* lasts, whatever reproduction fires and strikes do to the population.    *)
C31_NoEarlyLysis ==
    [][/\ PlayerLyses(scene'.lysisLog) # {} =>
             /\ lastOp' = "tick"
             /\ scene.injecting
             /\ \A i \in PlayerLyses(scene'.lysisLog) :
                    scene'.lysisLog[i].b = scene.attachedTarget
             /\ now' - scene.injectStartTime >= scene.injectDuration
       /\ (scene.injecting /\ scene'.injecting) =>
             /\ scene'.injectDuration = scene.injectDuration
             /\ scene'.injectStartTime = scene.injectStartTime
             /\ scene'.attachedTarget = scene.attachedTarget]_vars

(* A player lysis completing an injection during which the population      *)
(* changed: the duration fixed at its start is not the one the population  *)
(* of the completing frame would give.                                     *)
C31_Witness ==
    /\ lastOp = "tick"
    /\ PlayerLyses(scene.lysisLog) # {}
    /\ scene.injectionEnd = "completed"
    /\ scene.injectDuration
           # injectDurationFor(countActive(scene.bacteria) + Len(scene.lysisLog))


(* C32: every injection eventually ends: while frames keep occurring with  *)
(* time advancing, a state with injecting = TRUE is always followed by a   *)
(* state with injecting = FALSE (by completion, forced abort or game end). *)
C32_InjectionEnds == scene.injecting ~> ~scene.injecting

(* An injection started at the last instant of the bounded clock and       *)
(* completed by the frames after it.                                       *)
C32_Witness ==
    /\ lastOp = "tick"
    /\ now > MaxNow
    /\ ~scene.injecting
    /\ scene.injectionEnd = "completed"

(* An injection ended by the end of the game, frames after it began.       *)
C32_WitnessCancelled ==
    /\ lastOp = "tick"
    /\ ~scene.injecting
    /\ scene.injectionEnd = "cancelled"
    /\ now > scene.injectStartTime


(* C33: bacteria are conserved against the score: in every state of a      *)
(* session the score is the number of bacteria deactivated so far, that    *)
(* is (10 seeds + bacteria created by reproduction) - (active bacteria),   *)
(* and a bacterium that became inactive never becomes active again.        *)
C33_Conservation ==
    /\ [](/\ Len(scene.bacteria) >= seedCount
          /\ scene.score = Len(scene.bacteria) - countActive(scene.bacteria))
    /\ [][lastOp' # "reset" =>
             /\ Len(scene'.bacteria) >= Len(scene.bacteria)
             /\ \A i \in 1..Len(scene.bacteria) :
                    ~scene.bacteria[i].active => ~scene'.bacteria[i].active]_vars

(* A session with births and lyses: more bacteria than seeds, a score of   *)
(* two, and two inactive bacteria.                                         *)
C33_Witness ==
    /\ Len(scene.bacteria) > seedCount
    /\ scene.score = 2
    /\ Len(scene.bacteria) - countActive(scene.bacteria) = 2


(* C34: the score is bounded at the end of a session: in every state       *)
(* score <= neededToWin + maxHelpers, because a frame that runs starts     *)
(* with score < neededToWin and performs at most one lysis per active      *)
(* helper plus one player lysis.                                           *)
C34_ScoreBound ==
    /\ [](scene.score <= scene.neededToWin + scene.maxHelpers)
    /\ [][(lastOp' = "tick" /\ scene'.ticked) =>
             /\ scene.score < scene.neededToWin
             /\ Len(scene'.lysisLog) <= countActive(scene.helpers) + 1
             /\ Cardinality(PlayerLyses(scene'.lysisLog)) <= 1
             /\ countActive(scene.helpers) <= scene.maxHelpers
             /\ scene'.score = scene.score + Len(scene'.lysisLog)]_vars

(* A frame with several lyses that took the score beyond neededToWin and   *)
(* ended the game.                                                         *)
C34_Witness ==
    /\ lastOp = "tick"
    /\ scene.gameOver
    /\ scene.score > scene.neededToWin
    /\ Len(scene.lysisLog) >= 2


(* C35: the session ends at most once and is evaluated every frame:        *)
(* endGame is invoked at most once per session, gameOver never returns to  *)
(* FALSE without a reset, and after every frame that leaves gameOver FALSE *)
(* both score < neededToWin and active bacteria < loseThreshold hold; the  *)
(* count reaches loseThreshold with the game running only by a             *)
(* reproduction fire and stays there only until the end of the next frame. *)
C35_EndsOnce ==
    /\ [](/\ scene.endGameCalls <= 1
          /\ scene.gameOver <=> scene.endGameCalls = 1)
    /\ [][(scene.gameOver /\ lastOp' # "reset") =>
             scene'.gameOver /\ scene'.endGameCalls = scene.endGameCalls]_vars
    /\ []((lastOp = "tick" /\ ~scene.gameOver) =>
             /\ scene.score < scene.neededToWin
             /\ countActive(scene.bacteria) < scene.loseThreshold)
    /\ [][(~scene'.gameOver /\ countActive(scene'.bacteria) >= scene'.loseThreshold) =>
             /\ lastOp' # "tick"
             /\ \/ lastOp' = "repro"
                \/ countActive(scene.bacteria) >= scene.loseThreshold]_vars

(* A frame on a session already over: update returned at once and endGame *)
(* was not invoked again.                                                  *)
C35_Witness ==
    /\ lastOp = "tick"
    /\ scene.gameOver
    /\ ~scene.ticked
    /\ scene.endGameCalls = 1

(* The interval between a fire that reached loseThreshold and the next     *)
(* frame, with a press in between: the game still runs.                    *)
C35_WitnessInterval ==
    /\ lastOp = "pick"
    /\ ~scene.gameOver
    /\ countActive(scene.bacteria) >= scene.loseThreshold


(* C36: a pointer press consumed by the tutorial never triggers an attach  *)
(* attempt: the press that advances the tutorial past its last step starts *)
(* no injection, whichever of the overlay's and the scene's pointerdown    *)
(* handlers runs first for that press.                                     *)
C36_TutorialPressNoAttach ==
    [][(lastOp' \in HandlerOrders /\ scene.tutorialActive /\ ~scene'.tutorialActive) =>
          /\ ~scene'.injecting
          /\ scene'.attachedTarget = NULL
          /\ \A b \in 1..Len(scene'.bacteria) : ~scene'.bacteria[b].infected]_vars

(* What holds of the presses on the overlay: one that leaves the tutorial *)
(* active starts no injection, and so does the last one when the scene's   *)
(* handler runs before the overlay's.                                      *)
C36_OtherPressesIgnored ==
    [][(lastOp' \in HandlerOrders /\ scene'.injecting) =>
          /\ lastOp' = "overlayFirst"
          /\ scene.tutorialStep = lastTutorialStep
          /\ ~scene'.tutorialActive]_vars

(* The last press of the tutorial, dispatched to the overlay first: the    *)
(* tutorial is over and the player is injecting before any frame ran.      *)
C36_Witness ==
    /\ lastOp = "overlayFirst"
    /\ ~scene.tutorialActive
    /\ scene.injecting
    /\ scene.elapsedSeconds = 0


(* The velocity constrainToDish leaves on a sprite it clamped.             *)
Bounced(vx) == -((vx * 65) \div 100)

C37_WitnessLeft ==
    /\ lastOp = "constrain"
    /\ scene.applied = 2
    /\ scene.sprite.side = -1
    /\ scene.sprite = scene.before
    /\ scene.sprite.vx = -65000

====
